---------------------------- MODULE Spec2Model ----------------------------
(***************************************************************************)
(* A model of the nicepay-mcp document indexer (src/src/utils/docIndexer.ts)*)
(* and of the markdown functions of src/src/utils/markdownParser.ts: the   *)
(* section splitter the two share, extractCodeBlocks, extractTables,       *)
(* parseTable and extractAPIEndpoints.                                     *)
(*                                                                         *)
(* Text is a sequence of characters, each character a one-element string;  *)
(* a markdown document, a file name, a relative path and a query are all   *)
(* such sequences, so that split, join, trim, toLowerCase, includes and    *)
(* endsWith are computed character by character as the library does.       *)
(***************************************************************************)
EXTENDS Naturals, Integers, Sequences, FiniteSets, TLC

VARIABLES
    fsys,      \* the file system under docsBasePath: node -> status
    nchanges,  \* number of changes made to the file system so far
    walked,    \* the file system as the running/last buildIndex call found it
    index,     \* DocumentIndexer.index, a Map in insertion order: sequence of [key, doc]
    pc,        \* position of the buildIndex call: "idle", "building", "done", "failed"
    ti,        \* buildIndex: position in targetDirs (Len(targetDirs)+1 = the README step)
    stack,     \* indexDirectory: the recursion stack, innermost frame last
    prior,     \* the index as it was when the running/last buildIndex was called
    qres,      \* the last query issued and what it returned
    input,     \* parser specifications: the markdown text under test
    parsed,    \* parser specifications: what the parser returned for input
    scan,      \* extractCodeBlocks: the locals of the running call
    out,       \* the last MarkdownParser/extractKeywords call and what it returned
    lastLog,   \* initializeIndexer: the last line it logged
    rebuild,   \* the running/last buildIndex call followed a completed one over the same tree
    visited    \* the running/last buildIndex call: the readdirSync and indexFile calls it made

vars == <<fsys, nchanges, walked, index, pc, ti, stack, prior, qres, input, parsed,
          scan, out, lastLog, rebuild, visited>>

---------------------------------------------------------------------------
(* Characters and the String methods the code uses.                        *)

NL == "\n"

UpperChars == <<"A","B","C","D","E","F","G","H","I","J","K","L","M",
                "N","O","P","Q","R","S","T","U","V","W","X","Y","Z">>
LowerChars == <<"a","b","c","d","e","f","g","h","i","j","k","l","m",
                "n","o","p","q","r","s","t","u","v","w","x","y","z">>
DigitChars == {"0","1","2","3","4","5","6","7","8","9"}
\* stand-ins for two Hangul syllables (U+AC00..U+D7A3); they have no case
HangulChars == {"H1", "H2"}

Range(s) == {s[i] : i \in 1..Len(s)}

IsUpper(c) == c \in Range(UpperChars)
IsLetter(c) == c \in Range(UpperChars) \cup Range(LowerChars)
IsDigit(c) == c \in DigitChars
IsHangul(c) == c \in HangulChars
\* the regular expression class \s, restricted to the characters modelled
IsSpace(c) == c \in {" ", "\t", "\n", "\r"}
\* the characters '.' does not match
IsLineTerminator(c) == c \in {"\n", "\r"}
\* the regular expression class \w
IsWord(c) == IsLetter(c) \/ IsDigit(c) \/ c = "_"

\* the lower-case letter of each upper-case letter
LowerOf ==
    [c \in Range(UpperChars) |->
        LowerChars[CHOOSE i \in 1..Len(UpperChars) : UpperChars[i] = c]]

toLowerChar(c) == IF c \in DOMAIN LowerOf THEN LowerOf[c] ELSE c

toLowerCase(s) == [i \in 1..Len(s) |-> toLowerChar(s[i])]

\* s.includes(t)
includes(s, t) ==
    \E i \in 0..(Len(s) - Len(t)) : \A j \in 1..Len(t) : s[i + j] = t[j]

\* s.endsWith(t)
endsWith(s, t) ==
    Len(s) >= Len(t) /\ SubSeq(s, Len(s) - Len(t) + 1, Len(s)) = t

\* number of leading characters of s that satisfy P
LeadingCount(s, P(_)) ==
    IF \A i \in 1..Len(s) : P(s[i]) THEN Len(s)
    ELSE (CHOOSE i \in 1..Len(s) : ~P(s[i]) /\ \A j \in 1..(i - 1) : P(s[j])) - 1

\* number of trailing characters of s that satisfy P
TrailingCount(s, P(_)) ==
    IF \A i \in 1..Len(s) : P(s[i]) THEN Len(s)
    ELSE Len(s) - (CHOOSE i \in 1..Len(s) : ~P(s[i]) /\ \A j \in (i + 1)..Len(s) : P(s[j]))

\* s.trim()
trim(s) ==
    IF \A i \in 1..Len(s) : IsSpace(s[i]) THEN <<>>
    ELSE SubSeq(s, LeadingCount(s, IsSpace) + 1, Len(s) - TrailingCount(s, IsSpace))

RECURSIVE SplitFrom(_, _, _)
\* the pieces of s from position i on
SplitFrom(s, i, sep) ==
    IF \A j \in i..Len(s) : s[j] # sep THEN <<SubSeq(s, i, Len(s))>>
    ELSE LET k == CHOOSE j \in i..Len(s) : s[j] = sep /\ \A m \in i..(j - 1) : s[m] # sep
         IN  <<SubSeq(s, i, k - 1)>> \o SplitFrom(s, k + 1, sep)

\* s.split(sep) for a one-character separator: always at least one piece
split(s, sep) == SplitFrom(s, 1, sep)

RECURSIVE join(_, _)
\* pieces.join(sep): the empty array joins to the empty string
join(pieces, sep) ==
    IF pieces = <<>> THEN <<>>
    ELSE IF Len(pieces) = 1 THEN pieces[1]
    ELSE pieces[1] \o <<sep>> \o join(Tail(pieces), sep)

\* s with every character that fails Keep removed: s.replace(/[^K]/g, '')
FilterChars(s, Keep(_)) ==
    LET F[i \in 0..Len(s)] ==
            IF i = 0 THEN <<>>
            ELSE IF Keep(s[i]) THEN Append(F[i - 1], s[i]) ELSE F[i - 1]
    IN  F[Len(s)]

\* s.replace(/P+/g, c): every maximal run of characters satisfying P becomes c
CollapseRuns(s, P(_), c) ==
    LET F[i \in 0..Len(s)] ==
            IF i = 0 THEN <<>>
            ELSE IF ~P(s[i]) THEN Append(F[i - 1], s[i])
            ELSE IF i > 1 /\ P(s[i - 1]) THEN F[i - 1]
            ELSE Append(F[i - 1], c)
    IN  F[Len(s)]

---------------------------------------------------------------------------
(* DocumentIndexer.parseMarkdown and its helpers.                          *)

IsHash(c) == c = "#"
IsHyphen(c) == c = "-"
AnchorKeeps(c) == IsWord(c) \/ IsSpace(c) \/ c = "-"

\* title.toLowerCase().replace(/[^\w\s-]/g,'').replace(/\s+/g,'-').replace(/-+/g,'-').trim()
generateAnchor(title) ==
    trim(CollapseRuns(CollapseRuns(FilterChars(toLowerCase(title), AnchorKeeps),
                                   IsSpace, "-"),
                      IsHyphen, "-"))

NoMatch == [matched |-> FALSE, hashes |-> 0, text |-> <<>>]

\* line.match(/^(#{1,6})\s+(.+)$/): hashes is the length of group 1, text is
\* group 2.  \s+ is greedy and gives back its last character when nothing
\* follows the white space, so that "#" followed by two blanks matches with a
\* blank as its text.
headingMatch(line) ==
    LET h == LeadingCount(line, IsHash)
        afterHashes == SubSeq(line, h + 1, Len(line))
        w == LeadingCount(afterHashes, IsSpace)
        rest == SubSeq(afterHashes, w + 1, Len(afterHashes))
    IN  IF h < 1 \/ h > 6 \/ w < 1 THEN NoMatch
        ELSE IF rest # <<>>
             THEN IF \E i \in 1..Len(rest) : IsLineTerminator(rest[i]) THEN NoMatch
                  ELSE [matched |-> TRUE, hashes |-> h, text |-> rest]
        ELSE IF w >= 2 /\ ~IsLineTerminator(afterHashes[w])
             THEN [matched |-> TRUE, hashes |-> h, text |-> <<afterHashes[w]>>]
        ELSE NoMatch

NoSection == [open |-> FALSE, level |-> 0, title |-> <<>>, content |-> <<>>]

\* the record pushed onto sections when a section is closed
closeSection(cur) ==
    [level |-> cur.level, title |-> cur.title,
     content |-> join(cur.content, NL), anchor |-> generateAnchor(cur.title)]

ParseStart == [sections |-> <<>>, title |-> <<>>, currentSection |-> NoSection]

\* one iteration of the loop over lines
parseLine(st, line) ==
    LET m == headingMatch(line)
        headingText == trim(m.text)
    IN  IF m.matched
        THEN [sections |-> IF st.currentSection.open
                           THEN Append(st.sections, closeSection(st.currentSection))
                           ELSE st.sections,
              title |-> IF st.title = <<>> THEN headingText ELSE st.title,
              currentSection |-> [open |-> TRUE, level |-> m.hashes,
                                  title |-> headingText, content |-> <<>>]]
        ELSE IF st.currentSection.open
             THEN [st EXCEPT !.currentSection.content = Append(@, line)]
             ELSE st

RECURSIVE parseLines(_, _)
parseLines(st, lines) ==
    IF lines = <<>> THEN st ELSE parseLines(parseLine(st, lines[1]), Tail(lines))

Untitled == <<"U","n","t","i","t","l","e","d">>

\* parseMarkdown without the push of the last section after the loop
parseMarkdownNoLast(content) ==
    LET st == parseLines(ParseStart, split(content, NL))
    IN  [title |-> IF st.title = <<>> THEN Untitled ELSE st.title,
         sections |-> st.sections]

\* DocumentIndexer.parseMarkdown(content)
parseMarkdown(content) ==
    LET st == parseLines(ParseStart, split(content, NL))
    IN  [title |-> IF st.title = <<>> THEN Untitled ELSE st.title,
         sections |-> IF st.currentSection.open
                      THEN Append(st.sections, closeSection(st.currentSection))
                      ELSE st.sections]

---------------------------------------------------------------------------
(* MarkdownParser.extractSections.                                         *)

NoCurrentSection ==
    [open |-> FALSE, level |-> 0, title |-> <<>>, content |-> <<>>, lineStart |-> 0]

\* the record pushed onto sections when a section ends at line lineEnd
pushSection(cur, lineEnd) ==
    [level |-> cur.level, title |-> cur.title, content |-> join(cur.content, NL),
     lineStart |-> cur.lineStart, lineEnd |-> lineEnd]

SectionsStart == [sections |-> <<>>, currentSection |-> NoCurrentSection]

\* sectionLine with the section before a heading ended at the heading line
sectionLineEndAtHeading(st, line, i) ==
    LET m == headingMatch(line)
    IN  IF m.matched
        THEN [sections |-> IF st.currentSection.open
                           THEN Append(st.sections, pushSection(st.currentSection, i))
                           ELSE st.sections,
              currentSection |-> [open |-> TRUE, level |-> m.hashes,
                                  title |-> trim(m.text), content |-> <<>>,
                                  lineStart |-> i]]
        ELSE IF st.currentSection.open
             THEN [st EXCEPT !.currentSection.content = Append(@, line)]
             ELSE st

\* one iteration of the loop over lines, i the zero-based line index
sectionLine(st, line, i) ==
    LET m == headingMatch(line)
    IN  IF m.matched
        THEN [sections |-> IF st.currentSection.open
                           THEN Append(st.sections,
                                       pushSection(st.currentSection, i - 1))
                           ELSE st.sections,
              currentSection |-> [open |-> TRUE, level |-> m.hashes,
                                  title |-> trim(m.text), content |-> <<>>,
                                  lineStart |-> i]]
        ELSE IF st.currentSection.open
             THEN [st EXCEPT !.currentSection.content = Append(@, line)]
             ELSE st

RECURSIVE sectionLines(_, _, _)
sectionLines(st, lines, i) ==
    IF i = Len(lines) THEN st
    ELSE sectionLines(sectionLine(st, lines[i + 1], i), lines, i + 1)

\* MarkdownParser.extractSections(content)
extractSections(content) ==
    LET lines == split(content, NL)
        st == sectionLines(SectionsStart, lines, 0)
    IN  IF st.currentSection.open
        THEN Append(st.sections, pushSection(st.currentSection, Len(lines) - 1))
        ELSE st.sections

---------------------------------------------------------------------------
(* DocumentIndexer.extractKeywords.                                        *)

\* slice(0, 50): the number of content words kept
MaxContentWords == 50

NotSpace(c) == ~IsSpace(c)
IsAlnum(c) == IsLetter(c) \/ IsDigit(c)

RECURSIVE WhitespaceSplit(_)
\* the non-empty pieces of s.split(/\s+/), in order
WhitespaceSplit(s) ==
    LET t == SubSeq(s, LeadingCount(s, IsSpace) + 1, Len(s))
        n == LeadingCount(t, NotSpace)
    IN  IF t = <<>> THEN <<>>
        ELSE <<SubSeq(t, 1, n)>> \o WhitespaceSplit(SubSeq(t, n + 1, Len(t)))

RECURSIVE contentWords(_)
\* content.match(/[\uAC00-\uD7A3]+|[a-zA-Z]+[a-zA-Z0-9]*/g) || []
contentWords(s) ==
    IF s = <<>> THEN <<>>
    ELSE IF IsHangul(s[1])
         THEN LET n == LeadingCount(s, IsHangul)
              IN  <<SubSeq(s, 1, n)>> \o contentWords(SubSeq(s, n + 1, Len(s)))
    ELSE IF IsLetter(s[1])
         THEN LET n == LeadingCount(s, IsAlnum)
              IN  <<SubSeq(s, 1, n)>> \o contentWords(SubSeq(s, n + 1, Len(s)))
    ELSE contentWords(Tail(s))

SelectLonger(words, n) == SelectSeq(words, LAMBDA w : Len(w) > n)

\* keywords.add(word.toLowerCase()): a word the Set holds is not added again
addLower(keywords, word) ==
    IF toLowerCase(word) \in Range(keywords) THEN keywords
    ELSE Append(keywords, toLowerCase(word))

\* words.forEach(word => keywords.add(word.toLowerCase())), keywords a Set
\* kept in insertion order
AddAllLower(keywords, words) ==
    LET F[i \in 0..Len(words)] ==
            IF i = 0 THEN keywords ELSE addLower(F[i - 1], words[i])
    IN  F[Len(words)]

Min(a, b) == IF a <= b THEN a ELSE b

\* extractKeywords with slice(0, 50) applied before the length filter
extractKeywordsSliceFirst(title, content) ==
    LET titleWords == SelectLonger(WhitespaceSplit(title), 1)
        words == contentWords(content)
        kept == SelectLonger(SubSeq(words, 1, Min(Len(words), MaxContentWords)), 2)
    IN  AddAllLower(AddAllLower(<<>>, titleWords), kept)

\* DocumentIndexer.extractKeywords(title, content)
extractKeywords(title, content) ==
    LET titleWords == SelectLonger(WhitespaceSplit(title), 1)
        words == SelectLonger(contentWords(content), 2)
        kept == SubSeq(words, 1, Min(Len(words), MaxContentWords))
    IN  AddAllLower(AddAllLower(<<>>, titleWords), kept)

---------------------------------------------------------------------------
(* MarkdownParser.extractCodeBlocks, one step per line of the input.       *)

\* stand-in for the backtick character, which a TLA+ string cannot hold
Backtick == "BT"

Fence == <<Backtick, Backtick, Backtick>>

\* line.match(/^```(\w+)?\s*$/); lang is group 1, empty when it took no part
codeBlockStart(line) ==
    LET rest == SubSeq(line, 4, Len(line))
        n == LeadingCount(rest, IsWord)
    IN  IF Len(line) >= 3 /\ SubSeq(line, 1, 3) = Fence
           /\ \A k \in (n + 1)..Len(rest) : IsSpace(rest[k])
        THEN [matched |-> TRUE, lang |-> SubSeq(rest, 1, n)]
        ELSE [matched |-> FALSE, lang |-> <<>>]

\* currentLanguage = null (codeBlockStart[1] || null: an empty group is null)
NullLanguage == <<>>

\* the locals of extractCodeBlocks before its loop; i is the 0-based index
\* of the line the loop looks at next
ScanStart ==
    [phase |-> "loop", i |-> 0, inCodeBlock |-> FALSE,
     currentLanguage |-> NullLanguage, codeStart |-> 0, codeLines |-> <<>>,
     codeBlocks |-> <<>>]

\* no extractCodeBlocks call is running
NotScanning == [ScanStart EXCEPT !.phase = "idle"]

\* scanLine with the content push placed before the closing-fence test
scanLinePushFirst(st, line) ==
    IF codeBlockStart(line).matched /\ ~st.inCodeBlock
    THEN [st EXCEPT !.inCodeBlock = TRUE,
                    !.currentLanguage = codeBlockStart(line).lang,
                    !.codeStart = st.i,
                    !.codeLines = <<>>,
                    !.i = st.i + 1]
    ELSE IF trim(line) = Fence /\ st.inCodeBlock
    THEN [st EXCEPT !.inCodeBlock = FALSE,
                    !.codeBlocks = Append(st.codeBlocks,
                        [language |-> st.currentLanguage,
                         code |-> join(Append(st.codeLines, line), NL),
                         lineStart |-> st.codeStart,
                         lineEnd |-> st.i - 1]),
                    !.currentLanguage = NullLanguage,
                    !.codeLines = <<>>,
                    !.i = st.i + 1]
    ELSE IF st.inCodeBlock
    THEN [st EXCEPT !.codeLines = Append(st.codeLines, line), !.i = st.i + 1]
    ELSE [st EXCEPT !.i = st.i + 1]

\* scanLine with the opening test not guarded by !inCodeBlock: a fence with
\* a language tag inside a block starts the block over
scanLineReopens(st, line) ==
    IF codeBlockStart(line).matched
       /\ (~st.inCodeBlock \/ codeBlockStart(line).lang # NullLanguage)
    THEN [st EXCEPT !.inCodeBlock = TRUE,
                    !.currentLanguage = codeBlockStart(line).lang,
                    !.codeStart = st.i,
                    !.codeLines = <<>>,
                    !.i = st.i + 1]
    ELSE IF trim(line) = Fence /\ st.inCodeBlock
    THEN [st EXCEPT !.inCodeBlock = FALSE,
                    !.codeBlocks = Append(st.codeBlocks,
                        [language |-> st.currentLanguage,
                         code |-> join(st.codeLines, NL),
                         lineStart |-> st.codeStart,
                         lineEnd |-> st.i - 1]),
                    !.currentLanguage = NullLanguage,
                    !.codeLines = <<>>,
                    !.i = st.i + 1]
    ELSE IF st.inCodeBlock
    THEN [st EXCEPT !.codeLines = Append(st.codeLines, line), !.i = st.i + 1]
    ELSE [st EXCEPT !.i = st.i + 1]

\* scanLine with lineEnd: i in place of lineEnd: i - 1
scanLineEndAtFence(st, line) ==
    IF codeBlockStart(line).matched /\ ~st.inCodeBlock
    THEN [st EXCEPT !.inCodeBlock = TRUE,
                    !.currentLanguage = codeBlockStart(line).lang,
                    !.codeStart = st.i,
                    !.codeLines = <<>>,
                    !.i = st.i + 1]
    ELSE IF trim(line) = Fence /\ st.inCodeBlock
    THEN [st EXCEPT !.inCodeBlock = FALSE,
                    !.codeBlocks = Append(st.codeBlocks,
                        [language |-> st.currentLanguage,
                         code |-> join(st.codeLines, NL),
                         lineStart |-> st.codeStart,
                         lineEnd |-> st.i]),
                    !.currentLanguage = NullLanguage,
                    !.codeLines = <<>>,
                    !.i = st.i + 1]
    ELSE IF st.inCodeBlock
    THEN [st EXCEPT !.codeLines = Append(st.codeLines, line), !.i = st.i + 1]
    ELSE [st EXCEPT !.i = st.i + 1]

\* one iteration of the loop of extractCodeBlocks, on lines[st.i]
scanLine(st, line) ==
    IF codeBlockStart(line).matched /\ ~st.inCodeBlock
    THEN [st EXCEPT !.inCodeBlock = TRUE,
                    !.currentLanguage = codeBlockStart(line).lang,
                    !.codeStart = st.i,
                    !.codeLines = <<>>,
                    !.i = st.i + 1]
    ELSE IF trim(line) = Fence /\ st.inCodeBlock
    THEN [st EXCEPT !.inCodeBlock = FALSE,
                    !.codeBlocks = Append(st.codeBlocks,
                        [language |-> st.currentLanguage,
                         code |-> join(st.codeLines, NL),
                         lineStart |-> st.codeStart,
                         lineEnd |-> st.i - 1]),
                    !.currentLanguage = NullLanguage,
                    !.codeLines = <<>>,
                    !.i = st.i + 1]
    ELSE IF st.inCodeBlock
    THEN [st EXCEPT !.codeLines = Append(st.codeLines, line), !.i = st.i + 1]
    ELSE [st EXCEPT !.i = st.i + 1]

\* scanEnd without the codeLines.length > 0 test
scanEndAlways(st, nlines) ==
    IF st.inCodeBlock
    THEN [st EXCEPT !.phase = "returned",
                    !.codeBlocks = Append(st.codeBlocks,
                        [language |-> st.currentLanguage,
                         code |-> join(st.codeLines, NL),
                         lineStart |-> st.codeStart,
                         lineEnd |-> nlines - 1])]
    ELSE [st EXCEPT !.phase = "returned"]

\* after the loop: an unclosed block that has lines is pushed, then return
scanEnd(st, nlines) ==
    IF st.inCodeBlock /\ Len(st.codeLines) > 0
    THEN [st EXCEPT !.phase = "returned",
                    !.codeBlocks = Append(st.codeBlocks,
                        [language |-> st.currentLanguage,
                         code |-> join(st.codeLines, NL),
                         lineStart |-> st.codeStart,
                         lineEnd |-> nlines - 1])]
    ELSE [st EXCEPT !.phase = "returned"]

\* MarkdownParser.extractCodeBlocks(content)
extractCodeBlocks(content) ==
    LET lines == split(content, NL)
        F[k \in 0..Len(lines)] ==
            IF k = 0 THEN ScanStart ELSE scanLine(F[k - 1], lines[k])
    IN  scanEnd(F[Len(lines)], Len(lines)).codeBlocks

---------------------------------------------------------------------------
(* MarkdownParser.extractTables, parseTable and extractAPIEndpoints.       *)

Pipe == "|"

\* s.startsWith('|') and s.endsWith('|') for the one-character string
startsWithChar(s, c) == Len(s) >= 1 /\ s[1] = c
endsWithChar(s, c) == Len(s) >= 1 /\ s[Len(s)] = c

\* line.split('|').map(cell => cell.trim()).filter(cell => cell.length > 0)
cellsOf(line) ==
    LET pieces == split(line, Pipe)
    IN  SelectSeq([k \in 1..Len(pieces) |-> trim(pieces[k])], LAMBDA c : Len(c) > 0)

\* return null
NullTable == [ok |-> FALSE]

\* the rows of parseTable: every line from the given one on that has a cell
rowsFrom(lines, first) ==
    LET F[k \in (first - 1)..Len(lines)] ==
            IF k < first THEN <<>>
            ELSE LET rowCells == [c \in 1..Len(cellsOf(lines[k])) |->
                                    [content |-> cellsOf(lines[k])[c], isHeader |-> FALSE]]
                 IN  IF Len(rowCells) > 0 THEN Append(F[k - 1], [cells |-> rowCells])
                     ELSE F[k - 1]
    IN  F[Len(lines)]

\* parseTable with the row loop started at the second line (i = 1)
parseTableFromSecond(tableText) ==
    LET lines == SelectSeq(split(trim(tableText), NL), LAMBDA l : trim(l) # <<>>)
    IN  IF Len(lines) < 2 THEN NullTable
        ELSE [ok |-> TRUE,
              table |-> [headers |-> cellsOf(lines[1]),
                         rows |-> rowsFrom(lines, 2),
                         raw |-> tableText]]

\* MarkdownParser.parseTable(tableText): the header from the first line, the
\* second line skipped, the rows from the third line on
parseTable(tableText) ==
    LET lines == SelectSeq(split(trim(tableText), NL), LAMBDA l : trim(l) # <<>>)
    IN  IF Len(lines) < 2 THEN NullTable
        ELSE [ok |-> TRUE,
              table |-> [headers |-> cellsOf(lines[1]),
                         rows |-> rowsFrom(lines, 3),
                         raw |-> tableText]]

\* the locals of extractTables before its loop
TableStart == [currentTable |-> <<>>, inTable |-> FALSE, tables |-> <<>>]

\* const table = this.parseTable(currentTable.join('\n')); if (table) push
pushTable(tables, currentTable) ==
    LET table == parseTable(join(currentTable, NL))
    IN  IF table.ok THEN Append(tables, table.table) ELSE tables

\* one iteration of the loop of extractTables
tableLine(st, line) ==
    IF startsWithChar(trim(line), Pipe) /\ endsWithChar(trim(line), Pipe)
    THEN [st EXCEPT !.inTable = TRUE,
                    !.currentTable = Append(IF st.inTable THEN st.currentTable ELSE <<>>,
                                            line)]
    ELSE IF startsWithChar(trim(line), Pipe)
    THEN IF st.inTable
         THEN [st EXCEPT !.currentTable = Append(st.currentTable, line)]
         ELSE st
    ELSE IF st.inTable /\ Len(st.currentTable) >= 2
    THEN [st EXCEPT !.tables = pushTable(st.tables, st.currentTable),
                    !.currentTable = <<>>,
                    !.inTable = FALSE]
    ELSE st

\* MarkdownParser.extractTables(content)
extractTables(content) ==
    LET lines == split(content, NL)
        F[k \in 0..Len(lines)] ==
            IF k = 0 THEN TableStart ELSE tableLine(F[k - 1], lines[k])
        st == F[Len(lines)]
    IN  IF st.inTable /\ Len(st.currentTable) >= 2
        THEN pushTable(st.tables, st.currentTable)
        ELSE st.tables

\* the header words extractAPIEndpoints looks for; the two stand-ins spell
\* the Hangul word of two syllables
ApiWords == {<<"a", "p", "i">>, <<"H1", "H2">>}
MethodWords == {<<"m", "e", "t", "h", "o", "d">>}
EndpointWords == {<<"e", "n", "d", "p", "o", "i", "n", "t">>, <<"u", "r", "l">>}

\* headers.findIndex(h => words.some(w => h.toLowerCase().includes(w))),
\* counted from 1, 0 where findIndex gives -1
findIndex(headers, words) ==
    LET hits == {k \in 1..Len(headers) :
                    \E w \in words : includes(toLowerCase(headers[k]), w)}
    IN  IF hits = {} THEN 0 ELSE CHOOSE k \in hits : \A j \in hits : k <= j

\* row.cells[index]?.content || ''
cellContent(row, column) ==
    IF column \in 1..Len(row.cells) THEN row.cells[column].content ELSE <<>>

\* the triples of one table
tableEndpoints(table) ==
    LET apiIndex == findIndex(table.headers, ApiWords)
        methodIndex == findIndex(table.headers, MethodWords)
        endpointIndex == findIndex(table.headers, EndpointWords)
        F[k \in 0..Len(table.rows)] ==
            IF k = 0 THEN <<>>
            ELSE LET api == cellContent(table.rows[k], apiIndex)
                     method == cellContent(table.rows[k], methodIndex)
                     endpoint == cellContent(table.rows[k], endpointIndex)
                 IN  IF api # <<>> /\ method # <<>> /\ endpoint # <<>>
                     THEN Append(F[k - 1],
                                 [api |-> api, method |-> method, endpoint |-> endpoint])
                     ELSE F[k - 1]
    IN  IF apiIndex # 0 /\ methodIndex # 0 /\ endpointIndex # 0
        THEN F[Len(table.rows)]
        ELSE <<>>

\* MarkdownParser.extractAPIEndpoints(content)
extractAPIEndpoints(content) ==
    LET tables == extractTables(content)
        F[k \in 0..Len(tables)] ==
            IF k = 0 THEN <<>> ELSE F[k - 1] \o tableEndpoints(tables[k])
    IN  F[Len(tables)]

\* no MarkdownParser or extractKeywords call has been made
---------------------------------------------------------------------------
(* MarkdownParser.extractLinks.                                            *)

Quote == "\""
NotCloseParen(c) == c # ")"

\* the first position at or after from where s holds c, 0 when there is none
indexOfChar(s, c, from) ==
    LET hits == {i \in from..Len(s) : s[i] = c}
    IN  IF hits = {} THEN 0 ELSE CHOOSE i \in hits : \A j \in hits : i <= j

NoLinkMatch == [matched |-> FALSE]

\* (?:\s+"([^"]+)")\) tried right after position e: white space, a quote,
\* the title up to the next quote, that quote and the closing parenthesis
titleMatchAfter(s, e) ==
    LET w == LeadingCount(SubSeq(s, e + 1, Len(s)), IsSpace)
        o == e + w + 1
        c == IF o < Len(s) /\ s[o] = Quote THEN indexOfChar(s, Quote, o + 1) ELSE 0
    IN  IF w >= 1 /\ c > o + 1 /\ c < Len(s) /\ s[c + 1] = ")"
        THEN [matched |-> TRUE, title |-> SubSeq(s, o + 1, c - 1), last |-> c + 1]
        ELSE NoLinkMatch

\* /\[([^\]]+)\]\(([^)]+)(?:\s+"([^"]+)")?\)/ matched with its "[" at
\* position p.  Group 1 runs to the first "]".  Group 2 is greedy: the
\* longest run of characters other than ")" is tried first, then shorter
\* ones; for each the title group is tried before it is left out.
inlineMatchAt(s, p) ==
    LET q == indexOfChar(s, "]", p + 1)
        longest == q + 1 + LeadingCount(SubSeq(s, q + 2, Len(s)), NotCloseParen)
        ends == {e \in (q + 2)..longest :
                    \/ titleMatchAfter(s, e).matched
                    \/ e < Len(s) /\ s[e + 1] = ")"}
        e == CHOOSE x \in ends : \A y \in ends : x >= y
        t == titleMatchAfter(s, e)
    IN  IF s[p] = "[" /\ q > p + 1 /\ q < Len(s) /\ s[q + 1] = "(" /\ ends # {}
        THEN [matched |-> TRUE,
              link |-> [text |-> SubSeq(s, p + 1, q - 1),
                        url |-> SubSeq(s, q + 2, e),
                        hasTitle |-> t.matched,
                        title |-> IF t.matched THEN t.title ELSE <<>>],
              last |-> IF t.matched THEN t.last ELSE e + 1]
        ELSE NoLinkMatch

RECURSIVE inlineLinksFrom(_, _)
\* the loop over linkPattern.exec(content), lastIndex = from - 1
inlineLinksFrom(s, from) ==
    LET starts == {p \in from..Len(s) : inlineMatchAt(s, p).matched}
        p == CHOOSE x \in starts : \A y \in starts : x <= y
        m == inlineMatchAt(s, p)
    IN  IF starts = {} THEN <<>>
        ELSE <<m.link>> \o inlineLinksFrom(s, m.last + 1)

\* /\[([^\]]+)\]\[([^\]]+)\]/ matched with its first "[" at position p
referenceMatchAt(s, p) ==
    LET q == indexOfChar(s, "]", p + 1)
        r == IF q = 0 THEN 0 ELSE indexOfChar(s, "]", q + 2)
    IN  IF s[p] = "[" /\ q > p + 1 /\ q < Len(s) /\ s[q + 1] = "[" /\ r > q + 2
        THEN [matched |-> TRUE, text |-> SubSeq(s, p + 1, q - 1),
              ref |-> SubSeq(s, q + 2, r - 1), last |-> r]
        ELSE NoLinkMatch

\* new RegExp(`\\[${ref}\\]:\\s+([^\\s]+)`).exec(content) for a ref made of word
\* characters: the first "[ref]:" followed by white space and a run of
\* other characters, which is the url
refDefinition(s, ref) ==
    LET label == <<"[">> \o ref \o <<"]", ":">>
        after(d) == SubSeq(s, d + Len(label), Len(s))
        urlOf(d) ==
            LET rest == SubSeq(after(d), LeadingCount(after(d), IsSpace) + 1,
                               Len(after(d)))
            IN  SubSeq(rest, 1, LeadingCount(rest, LAMBDA c : ~IsSpace(c)))
        hits == {d \in 1..(Len(s) - Len(label) + 1) :
                    /\ SubSeq(s, d, d + Len(label) - 1) = label
                    /\ LeadingCount(after(d), IsSpace) >= 1
                    /\ urlOf(d) # <<>>}
    IN  IF hits = {} THEN NoLinkMatch
        ELSE [matched |-> TRUE, url |-> urlOf(CHOOSE d \in hits : \A x \in hits : d <= x)]

RECURSIVE referenceLinksFrom(_, _)
\* the loop over referenceLinkPattern.exec(content)
referenceLinksFrom(s, from) ==
    LET starts == {p \in from..Len(s) : referenceMatchAt(s, p).matched}
        p == CHOOSE x \in starts : \A y \in starts : x <= y
        m == referenceMatchAt(s, p)
        def == refDefinition(s, m.ref)
    IN  IF starts = {} THEN <<>>
        ELSE (IF def.matched
              THEN <<[text |-> m.text, url |-> def.url, hasTitle |-> FALSE,
                      title |-> <<>>]>>
              ELSE <<>>) \o referenceLinksFrom(s, m.last + 1)

\* MarkdownParser.extractLinks(content)
extractLinks(content) ==
    inlineLinksFrom(content, 1) \o referenceLinksFrom(content, 1)

NoOutput == [op |-> "none", arg |-> <<>>, result |-> <<>>]

---------------------------------------------------------------------------
(* The index (a Map, kept in insertion order) and the queries on it.       *)

Keys(idx) == {idx[i].key : i \in 1..Len(idx)}

\* Map.set(key, doc): a present key keeps its position
MapSet(idx, key, doc) ==
    IF key \in Keys(idx)
    THEN [i \in 1..Len(idx) |-> IF idx[i].key = key THEN [key |-> key, doc |-> doc]
                                ELSE idx[i]]
    ELSE Append(idx, [key |-> key, doc |-> doc])

NotFound == [found |-> FALSE]

\* DocumentIndexer.getDocument(filePath)
getDocument(idx, filePath) ==
    IF filePath \in Keys(idx)
    THEN [found |-> TRUE,
          doc |-> idx[CHOOSE i \in 1..Len(idx) : idx[i].key = filePath].doc]
    ELSE NotFound

\* DocumentIndexer.getAllDocuments()
getAllDocuments(idx) == [i \in 1..Len(idx) |-> idx[i].doc]

\* DocumentIndexer.getIndexSize()
getIndexSize(idx) == Len(idx)

\* findSection with findLast in place of find
findSectionLast(idx, filePath, sectionTitle) ==
    LET d == getDocument(idx, filePath)
        hits == IF d.found
                THEN {i \in 1..Len(d.doc.sections) :
                        includes(toLowerCase(d.doc.sections[i].title),
                                 toLowerCase(sectionTitle))}
                ELSE {}
    IN  IF hits = {} THEN NotFound
        ELSE [found |-> TRUE,
              section |-> d.doc.sections[CHOOSE i \in hits : \A j \in hits : i >= j]]

\* DocumentIndexer.findSection(filePath, sectionTitle)
findSection(idx, filePath, sectionTitle) ==
    LET d == getDocument(idx, filePath)
        hits == IF d.found
                THEN {i \in 1..Len(d.doc.sections) :
                        includes(toLowerCase(d.doc.sections[i].title),
                                 toLowerCase(sectionTitle))}
                ELSE {}
    IN  IF hits = {} THEN NotFound
        ELSE [found |-> TRUE,
              section |-> d.doc.sections[CHOOSE i \in hits : \A j \in hits : i <= j]]

\* scoreOf with doc.title compared as written, its toLowerCase() forgotten
scoreOfTitleAsWritten(doc, lowerQuery) ==
    (IF includes(doc.title, lowerQuery) THEN 10 ELSE 0)
    + (IF includes(toLowerCase(doc.fileName), lowerQuery) THEN 5 ELSE 0)
    + Len(SelectSeq(doc.keywords, LAMBDA k : includes(k, lowerQuery)))
    + (IF includes(toLowerCase(doc.content), lowerQuery) THEN 1 ELSE 0)

\* scoreOf with the content point given without its includes test
scoreOfNoContentTest(doc, lowerQuery) ==
    (IF includes(toLowerCase(doc.title), lowerQuery) THEN 10 ELSE 0)
    + (IF includes(toLowerCase(doc.fileName), lowerQuery) THEN 5 ELSE 0)
    + Len(SelectSeq(doc.keywords, LAMBDA k : includes(k, lowerQuery)))
    + 1

\* the score searchDocuments gives doc for the lowercased query
scoreOf(doc, lowerQuery) ==
    (IF includes(toLowerCase(doc.title), lowerQuery) THEN 10 ELSE 0)
    + (IF includes(toLowerCase(doc.fileName), lowerQuery) THEN 5 ELSE 0)
    + Len(SelectSeq(doc.keywords, LAMBDA k : includes(k, lowerQuery)))
    + (IF includes(toLowerCase(doc.content), lowerQuery) THEN 1 ELSE 0)

\* results.sort((a, b) => a.score - b.score): ascending, the comparator reversed
sortAscending(results) ==
    LET Ins(sorted, r) ==
            LET k == Cardinality({i \in 1..Len(sorted) : sorted[i].score <= r.score})
            IN  SubSeq(sorted, 1, k) \o <<r>> \o SubSeq(sorted, k + 1, Len(sorted))
        F[i \in 0..Len(results)] ==
            IF i = 0 THEN <<>> ELSE Ins(F[i - 1], results[i])
    IN  F[Len(results)]

\* results.sort((a, b) => b.score - a.score): descending by score, stable
sortByScore(results) ==
    LET Ins(sorted, r) ==
            LET k == Cardinality({i \in 1..Len(sorted) : sorted[i].score >= r.score})
            IN  SubSeq(sorted, 1, k) \o <<r>> \o SubSeq(sorted, k + 1, Len(sorted))
        F[i \in 0..Len(results)] ==
            IF i = 0 THEN <<>> ELSE Ins(F[i - 1], results[i])
    IN  F[Len(results)]

\* the loop of searchDocuments: every document whose score is positive
scoredResults(idx, lowerQuery) ==
    LET F[i \in 0..Len(idx)] ==
            IF i = 0 THEN <<>>
            ELSE LET score == scoreOf(idx[i].doc, lowerQuery)
                 IN  IF score > 0
                     THEN Append(F[i - 1], [doc |-> idx[i].doc, score |-> score])
                     ELSE F[i - 1]
    IN  F[Len(idx)]

\* DocumentIndexer.searchDocuments(query)
searchDocuments(idx, query) ==
    LET sorted == sortByScore(scoredResults(idx, toLowerCase(query)))
    IN  [i \in 1..Len(sorted) |-> sorted[i].doc]

---------------------------------------------------------------------------
(* The file system under docsBasePath.                                     *)
(*                                                                         *)
(* The tree has a fixed shape; what varies is the status of each node:     *)
(* "ok", "absent", or "denied" (a directory that cannot be listed, a file  *)
(* that cannot be read).  A node of kind "other" is an entry that is       *)
(* neither a directory nor a regular file, such as a symbolic link.        *)

Nodes == <<
    \* 1: api/
    [name |-> <<"a", "p", "i">>, parent |-> 0, kind |-> "dir",
     content |-> <<>>],
    \* 2: api/a.md   "# Pay\npayment"
    [name |-> <<"a", ".", "m", "d">>, parent |-> 1, kind |-> "file",
     content |-> <<"#", " ", "P", "a", "y", "\n", "p", "a", "y", "m", "e", "n", "t">>],
    \* 3: api/image/
    [name |-> <<"i", "m", "a", "g", "e">>, parent |-> 1, kind |-> "dir",
     content |-> <<>>],
    \* 4: api/image/x.md   "# Pay"
    [name |-> <<"x", ".", "m", "d">>, parent |-> 3, kind |-> "file",
     content |-> <<"#", " ", "P", "a", "y">>],
    \* 5: api/images/
    [name |-> <<"i", "m", "a", "g", "e", "s">>, parent |-> 1, kind |-> "dir",
     content |-> <<>>],
    \* 6: api/images/y.md   "# Img\npay"
    [name |-> <<"y", ".", "m", "d">>, parent |-> 5, kind |-> "file",
     content |-> <<"#", " ", "I", "m", "g", "\n", "p", "a", "y">>],
    \* 7: api/link.md   "# Pay"
    [name |-> <<"l", "i", "n", "k", ".", "m", "d">>, parent |-> 1, kind |-> "other",
     content |-> <<"#", " ", "P", "a", "y">>],
    \* 8: api/notes.txt   "# Pay"
    [name |-> <<"n", "o", "t", "e", "s", ".", "t", "x", "t">>, parent |-> 1, kind |-> "file",
     content |-> <<"#", " ", "P", "a", "y">>],
    \* 9: api/sub/
    [name |-> <<"s", "u", "b">>, parent |-> 1, kind |-> "dir",
     content |-> <<>>],
    \* 10: api/sub/b.md   "x\n## Refund\npay"
    [name |-> <<"b", ".", "m", "d">>, parent |-> 9, kind |-> "file",
     content |-> <<"x", "\n", "#", "#", " ", "R", "e", "f", "u", "n", "d", "\n", "p", "a", "y">>],
    \* 11: api/sub/dist/
    [name |-> <<"d", "i", "s", "t">>, parent |-> 9, kind |-> "dir",
     content |-> <<>>],
    \* 12: api/sub/dist/z.md   "# Pay"
    [name |-> <<"z", ".", "m", "d">>, parent |-> 11, kind |-> "file",
     content |-> <<"#", " ", "P", "a", "y">>],
    \* 13: common/
    [name |-> <<"c", "o", "m", "m", "o", "n">>, parent |-> 0, kind |-> "dir",
     content |-> <<>>],
    \* 14: common/c.md   "text"
    [name |-> <<"c", ".", "m", "d">>, parent |-> 13, kind |-> "file",
     content |-> <<"t", "e", "x", "t">>],
    \* 15: guide/
    [name |-> <<"g", "u", "i", "d", "e">>, parent |-> 0, kind |-> "dir",
     content |-> <<>>],
    \* 16: guide/g.md   "# Pay"
    [name |-> <<"g", ".", "m", "d">>, parent |-> 15, kind |-> "file",
     content |-> <<"#", " ", "P", "a", "y">>],
    \* 17: management   "# Pay"
    [name |-> <<"m", "a", "n", "a", "g", "e", "m", "e", "n", "t">>, parent |-> 0, kind |-> "file",
     content |-> <<"#", " ", "P", "a", "y">>],
    \* 18: migration/
    [name |-> <<"m", "i", "g", "r", "a", "t", "i", "o", "n">>, parent |-> 0, kind |-> "dir",
     content |-> <<>>],
    \* 19: migration/node_modules/
    [name |-> <<"n", "o", "d", "e", "_", "m", "o", "d", "u", "l", "e", "s">>, parent |-> 18, kind |-> "dir",
     content |-> <<>>],
    \* 20: migration/node_modules/m.md   "# Pay"
    [name |-> <<"m", ".", "m", "d">>, parent |-> 19, kind |-> "file",
     content |-> <<"#", " ", "P", "a", "y">>],
    \* 21: README.md   "### Pay\n# Intro"
    [name |-> <<"R", "E", "A", "D", "M", "E", ".", "m", "d">>, parent |-> 0, kind |-> "file",
     content |-> <<"#", "#", "#", " ", "P", "a", "y", "\n", "#", " ", "I", "n", "t", "r", "o">>]
>>

NodeIds == 1..Len(Nodes)

\* the changes the environment makes: <<node, new status>>
Changes == {<<2, "ok">>, <<2, "absent">>, <<2, "denied">>,
            <<9, "ok">>, <<9, "denied">>,
            <<13, "ok">>, <<13, "absent">>, <<13, "denied">>,
            <<21, "ok">>, <<21, "absent">>, <<21, "denied">>}

\* const targetDirs = ['api', 'common', 'management', 'migration']
targetDirs == <<<<"a", "p", "i">>,
               <<"c", "o", "m", "m", "o", "n">>,
               <<"m", "a", "n", "a", "g", "e", "m", "e", "n", "t">>,
               <<"m", "i", "g", "r", "a", "t", "i", "o", "n">>>>

README == <<"R", "E", "A", "D", "M", "E", ".", "m", "d">>
MdSuffix == <<".", "m", "d">>
PrunedNames == {<<"i", "m", "a", "g", "e">>,
                <<"n", "o", "d", "e", "_", "m", "o", "d", "u", "l", "e", "s">>,
                <<"d", "i", "s", "t">>}
DocsBasePath == <<"/", "d", "o", "c", "s">>

\* path.join(a, b)
pathJoin(a, b) == a \o <<"/">> \o b

\* path.basename(p)
basename(p) == LET parts == split(p, "/") IN parts[Len(parts)]

\* fs.existsSync of the entry `name` of directory `parent` (0: docsBasePath):
\* the node, or 0 when there is none
Lookup(parent, name) ==
    LET hits == {n \in NodeIds : /\ Nodes[n].parent = parent
                                 /\ Nodes[n].name = name
                                 /\ fsys[n] # "absent"}
    IN  IF hits = {} THEN 0 ELSE CHOOSE n \in hits : TRUE

\* fs.statSync(p).isDirectory()
isDirectory(n) == Nodes[n].kind = "dir"
\* isFile as fs.statSync would answer it: a link to a file counts as a file
isFileFollowingLinks(n) == Nodes[n].kind \in {"file", "other"}
\* Dirent.isFile()
isFile(n) == Nodes[n].kind = "file"

\* fs.readdirSync(dir, {withFileTypes: true}): the entries that exist, in
\* directory order; the call throws when CanList is false
CanList(n) == fsys[n] = "ok"
readdirSync(n) ==
    LET F[i \in 0..Len(Nodes)] ==
            IF i = 0 THEN <<>>
            ELSE IF Nodes[i].parent = n /\ fsys[i] # "absent" THEN Append(F[i - 1], i)
            ELSE F[i - 1]
    IN  F[Len(Nodes)]

\* fs.readFileSync(p, 'utf-8') throws when CanRead is false
CanRead(n) == fsys[n] = "ok"

\* this.parseMarkdown(content) and this.extractKeywords(parsed.title, content)
\* for the content of each file of the tree
fileParsed == [n \in NodeIds |-> parseMarkdown(Nodes[n].content)]
fileKeywords == [n \in NodeIds |-> extractKeywords(fileParsed[n].title, Nodes[n].content)]

\* the DocumentIndex record indexFile builds
docIndexOf(n, filePath, relativePath) ==
    LET content == Nodes[n].content
        p == fileParsed[n]
    IN  [filePath |-> relativePath,
         absolutePath |-> filePath,
         fileName |-> basename(filePath),
         title |-> p.title,
         content |-> content,
         sections |-> p.sections,
         keywords |-> fileKeywords[n]]

\* indexFile with this.index.set(filePath, docIndex): the absolute path as key
indexFileUnderAbsolutePath(idx, n, filePath, relativePath) ==
    IF CanRead(n)
    THEN MapSet(idx, filePath, docIndexOf(n, filePath, relativePath))
    ELSE idx

\* DocumentIndexer.indexFile(filePath, relativePath): the index afterwards
indexFile(idx, n, filePath, relativePath) ==
    IF CanRead(n)
    THEN MapSet(idx, relativePath, docIndexOf(n, filePath, relativePath))
    ELSE idx

NoQuery == [op |-> "none", path |-> <<>>, text |-> <<>>, result |-> <<>>]

\* no readdirSync and no indexFile call made yet
NoVisits == [listed |-> <<>>, indexed |-> <<>>]
\* fs.readdirSync is called on directory n
Listed(n) == [visited EXCEPT !.listed = Append(@, n)]
\* this.indexFile is called on file n
Indexed(n) == [visited EXCEPT !.indexed = Append(@, n)]

Top == stack[Len(stack)]
Entry == Head(Top.rest)
\* the innermost frame with its first entry consumed
Consumed == [stack EXCEPT ![Len(stack)].rest = Tail(@)]

Frame(n, dirPath, relativeBase) ==
    [dirPath |-> dirPath, relativeBase |-> relativeBase, rest |-> readdirSync(n)]

\* the name test of line 72 dropped: every subdirectory is walked
skipsDirectoryNever(name) == FALSE

\* entry.name !== 'image' && entry.name !== 'node_modules' && entry.name !== 'dist', negated
skipsDirectory(name) == name \in PrunedNames

\* entry.name.endsWith('.md')
isMarkdownName(name) == endsWith(name, MdSuffix)

---------------------------------------------------------------------------
(* DocumentIndexer.buildIndex, one step per directory entry.  The awaits   *)
(* of buildIndex and indexDirectory are the points where a caller that did *)
(* not await the build runs; the index changes only in indexFile, and      *)
(* every indexFile call is followed by an await, so each index value a     *)
(* step leaves is one such a caller can observe.                           *)

\* BuildStart without this.index.clear()
BuildStartNoClear ==
    /\ pc # "building"
    /\ prior' = index
    /\ index' = index
    /\ pc' = "building"
    /\ ti' = 1
    /\ stack' = <<>>
    /\ qres' = NoQuery
    /\ walked' = fsys
    /\ lastLog' = "start"
    /\ rebuild' = (pc = "done" /\ fsys = walked)
    /\ visited' = NoVisits
    /\ UNCHANGED <<fsys, nchanges, input, parsed, scan, out>>

\* buildIndex() is called: this.index.clear()
BuildStart ==
    /\ pc # "building"
    /\ prior' = index
    /\ index' = <<>>
    /\ pc' = "building"
    /\ ti' = 1
    /\ stack' = <<>>
    /\ qres' = NoQuery
    /\ walked' = fsys
    /\ lastLog' = "start"
    /\ rebuild' = (pc = "done" /\ fsys = walked)
    /\ visited' = NoVisits
    /\ UNCHANGED <<fsys, nchanges, input, parsed, scan, out>>

AtTarget == pc = "building" /\ stack = <<>> /\ ti \in 1..Len(targetDirs)
TargetNode == Lookup(0, targetDirs[ti])
\* fs.existsSync(dirPath) && fs.statSync(dirPath).isDirectory()
TargetIsDirectory == IF TargetNode = 0 THEN FALSE ELSE isDirectory(TargetNode)

\* a target directory that is absent, or is not a directory, is skipped
TargetSkip ==
    /\ AtTarget
    /\ ~TargetIsDirectory
    /\ ti' = ti + 1
    /\ qres' = NoQuery
    /\ UNCHANGED <<fsys, nchanges, walked, index, pc, stack, prior, input, parsed, scan, out, lastLog, rebuild, visited>>

\* await this.indexDirectory(dirPath, dir): the directory is listed
TargetEnter ==
    /\ AtTarget
    /\ TargetIsDirectory /\ CanList(TargetNode)
    /\ stack' = <<Frame(TargetNode, pathJoin(DocsBasePath, targetDirs[ti]),
                        targetDirs[ti])>>
    /\ visited' = Listed(TargetNode)
    /\ qres' = NoQuery
    /\ UNCHANGED <<fsys, nchanges, walked, index, pc, ti, prior, input, parsed, scan, out, lastLog, rebuild>>

\* readdirSync throws: the exception leaves indexDirectory and buildIndex
TargetThrow ==
    /\ AtTarget
    /\ TargetIsDirectory /\ ~CanList(TargetNode)
    /\ pc' = "failed"
    /\ lastLog' = "error"
    /\ visited' = Listed(TargetNode)
    /\ qres' = NoQuery
    /\ UNCHANGED <<fsys, nchanges, walked, index, ti, stack, prior, input, parsed, scan, out, rebuild>>

AtEntry == pc = "building" /\ stack # <<>> /\ Top.rest # <<>>

\* a subdirectory named image, node_modules or dist is not walked
EntryPruned ==
    /\ AtEntry
    /\ isDirectory(Entry) /\ skipsDirectory(Nodes[Entry].name)
    /\ stack' = Consumed
    /\ qres' = NoQuery
    /\ UNCHANGED <<fsys, nchanges, walked, index, pc, ti, prior, input, parsed, scan, out, lastLog, rebuild, visited>>

\* await this.indexDirectory(fullPath, path.join(relativeBase, entry.name))
EntryDescend ==
    /\ AtEntry
    /\ isDirectory(Entry) /\ ~skipsDirectory(Nodes[Entry].name) /\ CanList(Entry)
    /\ stack' = Append(Consumed,
                       Frame(Entry, pathJoin(Top.dirPath, Nodes[Entry].name),
                             pathJoin(Top.relativeBase, Nodes[Entry].name)))
    /\ visited' = Listed(Entry)
    /\ qres' = NoQuery
    /\ UNCHANGED <<fsys, nchanges, walked, index, pc, ti, prior, input, parsed, scan, out, lastLog, rebuild>>

\* EntryThrow with initializeIndexer lacking its try/catch: the rejection is
\* unhandled and ends the process
EntryThrowEscapes ==
    /\ AtEntry
    /\ isDirectory(Entry) /\ ~skipsDirectory(Nodes[Entry].name) /\ ~CanList(Entry)
    /\ pc' = "crashed"
    /\ stack' = <<>>
    /\ visited' = Listed(Entry)
    /\ qres' = NoQuery
    /\ UNCHANGED <<fsys, nchanges, walked, index, ti, prior, input, parsed, scan, out,
                   lastLog, rebuild>>

\* readdirSync of a subdirectory throws: the exception unwinds every frame,
\* leaves buildIndex and is caught and logged by initializeIndexer
EntryThrow ==
    /\ AtEntry
    /\ isDirectory(Entry) /\ ~skipsDirectory(Nodes[Entry].name) /\ ~CanList(Entry)
    /\ pc' = "failed"
    /\ lastLog' = "error"
    /\ stack' = <<>>
    /\ visited' = Listed(Entry)
    /\ qres' = NoQuery
    /\ UNCHANGED <<fsys, nchanges, walked, index, ti, prior, input, parsed, scan, out, rebuild>>

\* EntryIndex with indexFile lacking its try/catch: a read error leaves
\* indexFile, indexDirectory and buildIndex
EntryIndexNoCatch ==
    /\ AtEntry
    /\ ~isDirectory(Entry) /\ isFile(Entry) /\ isMarkdownName(Nodes[Entry].name)
    /\ index' = indexFile(index, Entry, pathJoin(Top.dirPath, Nodes[Entry].name),
                          pathJoin(Top.relativeBase, Nodes[Entry].name))
    /\ stack' = IF CanRead(Entry) THEN Consumed ELSE <<>>
    /\ pc' = IF CanRead(Entry) THEN pc ELSE "failed"
    /\ lastLog' = IF CanRead(Entry) THEN lastLog ELSE "error"
    /\ visited' = Indexed(Entry)
    /\ qres' = NoQuery
    /\ UNCHANGED <<fsys, nchanges, walked, ti, prior, input, parsed, scan, out, rebuild>>

\* await this.indexFile(fullPath, relativePath) for a regular file named *.md
EntryIndex ==
    /\ AtEntry
    /\ ~isDirectory(Entry) /\ isFile(Entry) /\ isMarkdownName(Nodes[Entry].name)
    /\ index' = indexFile(index, Entry, pathJoin(Top.dirPath, Nodes[Entry].name),
                          pathJoin(Top.relativeBase, Nodes[Entry].name))
    /\ stack' = Consumed
    /\ visited' = Indexed(Entry)
    /\ qres' = NoQuery
    /\ UNCHANGED <<fsys, nchanges, walked, pc, ti, prior, input, parsed, scan, out, lastLog, rebuild>>

\* any other entry is passed over
EntrySkip ==
    /\ AtEntry
    /\ ~isDirectory(Entry) /\ ~(isFile(Entry) /\ isMarkdownName(Nodes[Entry].name))
    /\ stack' = Consumed
    /\ qres' = NoQuery
    /\ UNCHANGED <<fsys, nchanges, walked, index, pc, ti, prior, input, parsed, scan, out, lastLog, rebuild, visited>>

\* the loop over entries ends: indexDirectory returns to its caller
DirReturn ==
    /\ pc = "building" /\ stack # <<>> /\ Top.rest = <<>>
    /\ stack' = SubSeq(stack, 1, Len(stack) - 1)
    /\ ti' = IF Len(stack) = 1 THEN ti + 1 ELSE ti
    /\ qres' = NoQuery
    /\ UNCHANGED <<fsys, nchanges, walked, index, pc, prior, input, parsed, scan, out, lastLog, rebuild, visited>>

\* the root README.md, indexed under the key 'README.md'; buildIndex returns
ReadmeStep ==
    /\ pc = "building" /\ stack = <<>> /\ ti = Len(targetDirs) + 1
    /\ index' = IF Lookup(0, README) # 0
                THEN indexFile(index, Lookup(0, README),
                               pathJoin(DocsBasePath, README), README)
                ELSE index
    /\ pc' = "done"
    /\ lastLog' = "complete"
    /\ visited' = IF Lookup(0, README) # 0 THEN Indexed(Lookup(0, README)) ELSE visited
    /\ qres' = NoQuery
    /\ UNCHANGED <<fsys, nchanges, walked, ti, stack, prior, input, parsed, scan, out, rebuild>>

---------------------------------------------------------------------------
(* The environment and the callers.                                        *)

\* number of changes the environment makes to the file system
MaxFsChanges == 2

\* the documents tree changes between two builds: a file or directory
\* disappears, comes back, or loses or regains its read permission
FsChange ==
    /\ pc # "building"
    /\ nchanges < MaxFsChanges
    /\ \E c \in Changes :
          /\ c[2] # fsys[c[1]]
          /\ fsys' = [fsys EXCEPT ![c[1]] = c[2]]
    /\ nchanges' = nchanges + 1
    /\ qres' = NoQuery
    /\ UNCHANGED <<walked, index, pc, ti, stack, prior, input, parsed, scan, out, lastLog, rebuild, visited>>

\* the query strings and the paths the callers ask for
Queries == {<<>>,
            <<"p", "a", "y">>,
            <<"P", "A", "Y">>,
            <<"r", "e", "a", "d", "m", "e">>,
            <<"u", "n", "t">>}
QueryPaths == {<<"a", "p", "i", "/", "a", ".", "m", "d">>,
               <<"R", "E", "A", "D", "M", "E", ".", "m", "d">>,
               <<"r", "e", "a", "d", "m", "e", ".", "m", "d">>}
QueryTitles == {<<"I", "N", "T", "R", "O">>, <<>>}

\* QuerySearch with the sort applied to the entries of this.index itself
QuerySearchInPlace ==
    /\ pc # "crashed"
    /\ \E q \in Queries :
          /\ qres' = [op |-> "searchDocuments", path |-> <<>>, text |-> q,
                      result |-> searchDocuments(index, q)]
          /\ index' = LET sorted == sortByScore(
                                       [i \in 1..Len(index) |->
                                           [key |-> index[i].key, doc |-> index[i].doc,
                                            score |-> scoreOf(index[i].doc,
                                                              toLowerCase(q))]])
                      IN  [i \in 1..Len(sorted) |->
                              [key |-> sorted[i].key, doc |-> sorted[i].doc]]
    /\ UNCHANGED <<fsys, nchanges, walked, pc, ti, stack, prior, input, parsed, scan, out,
                   lastLog, rebuild, visited>>

\* a call searchDocuments(q)
QuerySearch ==
    /\ pc # "crashed"
    /\ \E q \in Queries :
          qres' = [op |-> "searchDocuments", path |-> <<>>, text |-> q,
                   result |-> searchDocuments(index, q)]
    /\ UNCHANGED <<fsys, nchanges, walked, index, pc, ti, stack, prior, input, parsed, scan, out, lastLog, rebuild, visited>>

\* a call getDocument(p)
QueryGet ==
    /\ pc # "crashed"
    /\ \E p \in QueryPaths :
          qres' = [op |-> "getDocument", path |-> p, text |-> <<>>,
                   result |-> getDocument(index, p)]
    /\ UNCHANGED <<fsys, nchanges, walked, index, pc, ti, stack, prior, input, parsed, scan, out, lastLog, rebuild, visited>>

\* a call findSection(p, t)
QueryFind ==
    /\ pc # "crashed"
    /\ \E p \in QueryPaths, t \in QueryTitles :
          qres' = [op |-> "findSection", path |-> p, text |-> t,
                   result |-> findSection(index, p, t)]
    /\ UNCHANGED <<fsys, nchanges, walked, index, pc, ti, stack, prior, input, parsed, scan, out, lastLog, rebuild, visited>>

\* a call getAllDocuments()
QueryAll ==
    /\ pc # "crashed"
    /\ qres' = [op |-> "getAllDocuments", path |-> <<>>, text |-> <<>>,
                result |-> getAllDocuments(index)]
    /\ UNCHANGED <<fsys, nchanges, walked, index, pc, ti, stack, prior, input, parsed, scan, out, lastLog, rebuild, visited>>

\* a call getIndexSize()
QuerySize ==
    /\ pc # "crashed"
    /\ qres' = [op |-> "getIndexSize", path |-> <<>>, text |-> <<>>,
                result |-> getIndexSize(index)]
    /\ UNCHANGED <<fsys, nchanges, walked, index, pc, ti, stack, prior, input, parsed, scan, out, lastLog, rebuild, visited>>

---------------------------------------------------------------------------
(* The indexer: a DocumentIndexer is constructed with an empty index, its  *)
(* owner calls buildIndex and the query methods, the tree changes between  *)
(* builds.                                                                 *)

NotParsed == [done |-> FALSE, title |-> <<>>, sections |-> <<>>]

IndexerInit ==
    /\ fsys = [n \in NodeIds |-> "ok"]
    /\ nchanges = 0
    /\ walked = fsys
    /\ index = <<>>
    /\ pc = "idle"
    /\ ti = 0
    /\ stack = <<>>
    /\ prior = <<>>
    /\ qres = NoQuery
    /\ lastLog = "none"
    /\ rebuild = FALSE
    /\ visited = NoVisits

Init ==
    /\ IndexerInit
    /\ input = <<>>
    /\ parsed = NotParsed
    /\ scan = NotScanning
    /\ out = NoOutput

Next ==
    \/ BuildStart
    \/ TargetSkip
    \/ TargetEnter
    \/ TargetThrow
    \/ EntryPruned
    \/ EntryDescend
    \/ EntryThrow
    \/ EntryIndex
    \/ EntrySkip
    \/ DirReturn
    \/ ReadmeStep
    \/ FsChange
    \/ QuerySearch
    \/ QueryGet
    \/ QueryFind
    \/ QueryAll
    \/ QuerySize

Spec == Init /\ [][Next]_vars

\* the steps of a running buildIndex call: each is the continuation of an
\* await on an already settled promise, which the event loop always runs
BuildStep ==
    \/ TargetSkip
    \/ TargetEnter
    \/ TargetThrow
    \/ EntryPruned
    \/ EntryDescend
    \/ EntryThrow
    \/ EntryIndex
    \/ EntrySkip
    \/ DirReturn
    \/ ReadmeStep

\* the indexer with its builds only
NextBuild ==
    \/ BuildStart
    \/ BuildStep
    \/ FsChange

SpecBuild == Init /\ [][NextBuild]_vars /\ WF_vars(BuildStep)

---------------------------------------------------------------------------
(* What a build is expected to find, read off the tree rather than the     *)
(* traversal.                                                              *)

RECURSIVE PathNodes(_)
\* the nodes from the top-level entry down to n
PathNodes(n) ==
    IF Nodes[n].parent = 0 THEN <<n>> ELSE Append(PathNodes(Nodes[n].parent), n)

\* the path of n relative to docsBasePath
KeyOf(n) == join([i \in 1..Len(PathNodes(n)) |-> Nodes[PathNodes(n)[i]].name], "/")

ReadmeNode == CHOOSE n \in NodeIds : Nodes[n].parent = 0 /\ Nodes[n].name = README

\* n and every directory above it exist in fs
ExistsIn(fs, n) == \A i \in 1..Len(PathNodes(n)) : fs[PathNodes(n)[i]] # "absent"

\* n lies below one of the four target directories
UnderTarget(n) ==
    /\ Len(PathNodes(n)) >= 2
    /\ Nodes[PathNodes(n)[1]].kind = "dir"
    /\ \E t \in 1..Len(targetDirs) : Nodes[PathNodes(n)[1]].name = targetDirs[t]

\* no directory between the target directory and n is a pruned one
OutsidePruned(n) ==
    \A i \in 2..(Len(PathNodes(n)) - 1) : Nodes[PathNodes(n)[i]].name \notin PrunedNames

\* n is a regular file named *.md that a walk of fs comes across
MarkdownFileIn(fs, n) ==
    /\ Nodes[n].kind = "file"
    /\ endsWith(Nodes[n].name, MdSuffix)
    /\ ExistsIn(fs, n)
    /\ UnderTarget(n)
    /\ OutsidePruned(n)

\* the tree fs with every unreadable file taken away
WithoutUnreadable(fs) ==
    [n \in NodeIds |-> IF Nodes[n].kind # "dir" /\ fs[n] = "denied" THEN "absent"
                       ELSE fs[n]]

\* the records of the given nodes, in directory order
DocsOf(nodes) ==
    LET F[i \in 0..Len(Nodes)] ==
            IF i = 0 THEN <<>>
            ELSE IF i \in nodes
                 THEN Append(F[i - 1],
                             docIndexOf(i, pathJoin(DocsBasePath, KeyOf(i)), KeyOf(i)))
                 ELSE F[i - 1]
    IN  F[Len(Nodes)]

\* the files a build over fs indexes when each of them can be read
FilesToIndex(fs) ==
    {n \in NodeIds : MarkdownFileIn(fs, n) \/ (n = ReadmeNode /\ fs[n] # "absent")}

\* a directory the walk has to list cannot be listed
SomeDirectoryUnlistable ==
    \E n \in NodeIds : Nodes[n].kind = "dir" /\ walked[n] = "denied"

---------------------------------------------------------------------------
(* Claims about buildIndex.                                                *)

\* C2 (as stated): when an exception is raised during the traversal, the
\* index after the failed call equals the index before the call.
C2_FailedBuildKeepsPriorIndex ==
    pc = "failed" => index = prior

\* C3: a file that cannot be read has no entry, its failure never makes
\* buildIndex raise, and a completed build holds exactly the records, in the
\* order, it would hold if the unreadable files did not exist.
C3_FileFailureIsLocal ==
    /\ pc = "failed" => SomeDirectoryUnlistable
    /\ pc = "done" =>
          /\ \A n \in NodeIds :
                (Nodes[n].kind = "file" /\ walked[n] = "denied") => KeyOf(n) \notin Keys(index)
          /\ getAllDocuments(index) = DocsOf(FilesToIndex(WithoutUnreadable(walked)))

\* C3 witness: a build has completed over a tree in which a markdown file
\* of a target directory cannot be read, and has indexed other files.
C3_Witness ==
    /\ pc = "done"
    /\ \E n \in NodeIds : MarkdownFileIn(walked, n) /\ walked[n] = "denied"
    /\ Len(index) >= 2

\* C4 (as stated): after a completed build the key set is the relative paths
\* of the readable *.md files under the existing target directories, outside
\* pruned subdirectories, plus 'README.md' when the root README exists.
C4_KeysWithExistingReadme ==
    pc = "done" =>
        Keys(index) = {KeyOf(n) : n \in {m \in NodeIds : MarkdownFileIn(walked, m)
                                                          /\ walked[m] = "ok"}}
                      \cup (IF walked[ReadmeNode] # "absent" THEN {README} ELSE {})

\* C4 (amended): the same, with 'README.md' a key when the root README exists
\* and can be read.
C4_KeysWithReadableReadme ==
    pc = "done" =>
        Keys(index) = {KeyOf(n) : n \in {m \in NodeIds : MarkdownFileIn(walked, m)
                                                          /\ walked[m] = "ok"}}
                      \cup (IF walked[ReadmeNode] = "ok" THEN {README} ELSE {})

\* C4 witness: a rebuild has completed after a file indexed by the earlier
\* build disappeared, over a tree with a target directory missing.
C4_Witness ==
    /\ pc = "done"
    /\ \E n \in NodeIds : KeyOf(n) \in Keys(prior) /\ walked[n] = "absent"
    /\ \E t \in 1..Len(targetDirs) : Lookup(0, targetDirs[t]) = 0
    /\ index # <<>>

\* C5: no key has, below its target directory, a component that is exactly
\* 'image', 'node_modules' or 'dist', and the file under api/images, a name
\* that only contains 'image', is indexed by every completed build.
C5_PrunedDirectoriesSkipped ==
    /\ \A k \in Keys(index) :
          \A i \in 2..Len(split(k, "/")) : split(k, "/")[i] \notin PrunedNames
    /\ pc = "done" => KeyOf(6) \in Keys(index)

\* C5 witness: a build has completed over a tree that holds markdown files
\* below image, node_modules and dist, one of them two levels down.
C5_Witness ==
    /\ pc = "done"
    /\ \A n \in {4, 12, 20} : ExistsIn(walked, n) /\ ~OutsidePruned(n)
    /\ KeyOf(10) \in Keys(index)

---------------------------------------------------------------------------
(* Claims about the queries.                                               *)

\* what the last query returns on an empty index
ResultOnEmptyIndex ==
    CASE qres.op = "searchDocuments" -> searchDocuments(<<>>, qres.text)
      [] qres.op = "getDocument" -> getDocument(<<>>, qres.path)
      [] qres.op = "findSection" -> findSection(<<>>, qres.path, qres.text)
      [] qres.op = "getIndexSize" -> getIndexSize(<<>>)
      [] OTHER -> qres.result

\* C1 (as stated): searchDocuments("") on an index that holds at least one
\* document returns an empty sequence (here: asked of a completed build).
C1_EmptyQueryFindsNothing ==
    (qres.op = "searchDocuments" /\ qres.text = <<>> /\ index # <<>> /\ pc = "done")
        => qres.result = <<>>

\* C6 (as stated): a query issued before buildIndex was ever called, or while
\* a buildIndex call is running, returns what it returns on an empty index.
C6_QueryBeforeBuildEndsSeesEmptyIndex ==
    (qres.op # "none" /\ pc \in {"idle", "building"})
        => qres.result = ResultOnEmptyIndex

\* s contains q, case-insensitively
ContainsCI(s, q) == includes(toLowerCase(s), toLowerCase(q))
Bit(b) == IF b THEN 1 ELSE 0

\* the score the claim gives doc for query q
ClaimedScore(doc, q) ==
    10 * Bit(ContainsCI(doc.title, q))
    + 5 * Bit(ContainsCI(doc.fileName, q))
    + Cardinality({i \in 1..Len(doc.keywords) : ContainsCI(doc.keywords[i], q)})
    + Bit(ContainsCI(doc.content, q))

\* C7: searchDocuments(q) scores a document 10 for its title, 5 for its file
\* name, 1 for each keyword and 1 for its content containing q whatever the
\* casing, returns exactly the documents of positive score, none twice, and
\* returns the same for every casing of q.
C7_SearchScoresAndSelects ==
    qres.op = "searchDocuments" =>
        /\ \A i \in 1..Len(index) :
              /\ scoreOf(index[i].doc, toLowerCase(qres.text))
                     = ClaimedScore(index[i].doc, qres.text)
              /\ (index[i].doc \in Range(qres.result))
                     <=> ClaimedScore(index[i].doc, qres.text) > 0
        /\ Range(qres.result) \subseteq Range(getAllDocuments(index))
        /\ \A i, j \in 1..Len(qres.result) : qres.result[i] = qres.result[j] => i = j
        /\ \A q \in Queries :
              toLowerCase(q) = toLowerCase(qres.text)
                  => searchDocuments(index, q) = qres.result

\* C7 witness: a query written in capitals has returned a document that
\* matches in title, keywords and content, and has left another one out.
C7_Witness ==
    /\ qres.op = "searchDocuments"
    /\ qres.text # toLowerCase(qres.text)
    /\ \E i \in 1..Len(qres.result) : ClaimedScore(qres.result[i], qres.text) >= 13
    /\ Len(qres.result) < Len(index)

\* C8: in the sequence searchDocuments returns, a document never comes before
\* one of higher score.
C8_ResultsByDescendingScore ==
    qres.op = "searchDocuments" =>
        \A i, j \in 1..Len(qres.result) :
            i < j => ClaimedScore(qres.result[i], qres.text)
                         >= ClaimedScore(qres.result[j], qres.text)

\* position of a document in the index
PositionOf(doc) == CHOOSE i \in 1..Len(index) : index[i].doc = doc

\* C8 witness: a search has returned, ahead of a document, one of higher
\* score that the index holds after it.
C8_Witness ==
    /\ qres.op = "searchDocuments"
    /\ \E i, j \in 1..Len(qres.result) :
          /\ i < j
          /\ ClaimedScore(qres.result[i], qres.text) > ClaimedScore(qres.result[j], qres.text)
          /\ PositionOf(qres.result[i]) > PositionOf(qres.result[j])

(* C15: findSection(path, t) returns the first section, in document order,  *)
(* of the document stored under exactly the key path whose title contains  *)
(* t without regard to case; it returns the not-found value when no        *)
(* document is stored under that key or no section of it matches.          *)
C15_FindSectionFirstMatch ==
    qres.op = "findSection" =>
        LET holders == {i \in 1..Len(index) : index[i].key = qres.path}
        IN  IF holders = {} THEN qres.result = NotFound
            ELSE LET sections == index[CHOOSE i \in holders : TRUE].doc.sections
                     matching == {k \in 1..Len(sections) :
                                    ContainsCI(sections[k].title, qres.text)}
                 IN  IF matching = {} THEN qres.result = NotFound
                     ELSE /\ qres.result.found
                          /\ \E k \in matching :
                                /\ \A j \in matching : k <= j
                                /\ qres.result.section = sections[k]

C15_Witness ==
    /\ qres.op = "findSection"
    /\ qres.result.found
    /\ \E i \in 1..Len(index) :
          /\ index[i].key = qres.path
          /\ Cardinality({k \in 1..Len(index[i].doc.sections) :
                            ContainsCI(index[i].doc.sections[k].title, qres.text)}) > 1

C21_QueriesLeaveIndexUnchanged ==
    [][qres'.op # "none" => index' = index]_vars

\* C21 witness: getAllDocuments has been called on a completed index of
\* several documents.
C21_Witness ==
    /\ pc = "done"
    /\ qres.op = "getAllDocuments"
    /\ Len(qres.result) >= 2

\* C25 (as stated): for a non-empty query every document searchDocuments
\* returns contains the query, case-insensitively, in its raw content or in
\* its file name.
C25_HitsContainQuery ==
    (qres.op = "searchDocuments" /\ qres.text # <<>>) =>
        \A i \in 1..Len(qres.result) :
            \/ ContainsCI(qres.result[i].content, qres.text)
            \/ ContainsCI(qres.result[i].fileName, qres.text)

\* C25 (amended): for a non-empty query every document searchDocuments
\* returns contains the query, case-insensitively, in its raw content, in
\* its file name, or in its title when that is the placeholder 'Untitled'.
C25_HitsContainQueryOrPlaceholder ==
    (qres.op = "searchDocuments" /\ qres.text # <<>>) =>
        \A i \in 1..Len(qres.result) :
            \/ ContainsCI(qres.result[i].content, qres.text)
            \/ ContainsCI(qres.result[i].fileName, qres.text)
            \/ /\ qres.result[i].title = Untitled
               /\ ContainsCI(Untitled, qres.text)

\* C25 witness: a non-empty query has returned a document found through its
\* file name only.
C25_Witness ==
    /\ qres.op = "searchDocuments" /\ qres.text # <<>>
    /\ \E i \in 1..Len(qres.result) :
          /\ ~ContainsCI(qres.result[i].content, qres.text)
          /\ ContainsCI(qres.result[i].fileName, qres.text)

\* C26: every entry is stored under its record's filePath, so getDocument(p)
\* returns a record exactly when p is a key, the record returned has filePath
\* p, and getIndexSize() is the number of records getAllDocuments() returns.
C26_KeyIsFilePath ==
    /\ \A i \in 1..Len(index) : index[i].key = index[i].doc.filePath
    /\ \A i, j \in 1..Len(index) : index[i].key = index[j].key => i = j
    /\ \A p \in QueryPaths \cup Keys(index) :
          /\ getDocument(index, p).found <=> p \in Keys(index)
          /\ getDocument(index, p).found => getDocument(index, p).doc.filePath = p
    /\ getIndexSize(index) = Len(getAllDocuments(index))
    /\ qres.op = "getDocument" =>
          (qres.result.found => qres.result.doc.filePath = qres.path)

\* C26 witness: getDocument has returned a record from an index of several.
C26_Witness ==
    /\ Len(index) >= 2
    /\ qres.op = "getDocument"
    /\ qres.result.found

\* the place of a key in the order of a build: that of its target
\* directory, the root README.md after all of them
KeyRank(key) ==
    LET top == split(key, "/")[1]
        hits == {t \in 1..Len(targetDirs) : targetDirs[t] = top}
    IN  IF hits = {} \/ Len(split(key, "/")) = 1 THEN Len(targetDirs) + 1
        ELSE CHOOSE t \in hits : TRUE

\* C27: buildIndex is idempotent over an unchanged file system: a completed
\* call that follows a completed call over the same tree leaves the index
\* the earlier call left (keys, order, records), the entries of api, common,
\* management and migration in this order and README.md last.
C27_RebuildIsIdempotent ==
    (pc = "done" /\ rebuild) =>
        /\ index = prior
        /\ \A i, j \in 1..Len(index) :
              i < j => KeyRank(index[i].key) <= KeyRank(index[j].key)
        /\ \A i \in 1..Len(index) :
              KeyRank(index[i].key) = Len(targetDirs) + 1 => index[i].key = README

\* C27 witness: a second build over the same tree has completed with
\* entries of two target directories and the README.
C27_Witness ==
    /\ pc = "done" /\ rebuild
    /\ \E i, j \in 1..Len(index) :
          KeyRank(index[i].key) = 1 /\ KeyRank(index[j].key) = 2
    /\ index[Len(index)].key = README

NoRepeat(seq) == \A i, j \in 1..Len(seq) : seq[i] = seq[j] => i = j
InSeq(x, seq) == \E i \in 1..Len(seq) : seq[i] = x

\* a build lists no directory twice and indexes no file twice, and an entry
\* that is neither a directory nor a regular file is neither listed nor
\* indexed
VisitsOnce ==
    /\ NoRepeat(visited.listed)
    /\ NoRepeat(visited.indexed)
    /\ \A n \in NodeIds :
          Nodes[n].kind = "other" =>
              /\ ~InSeq(n, visited.listed)
              /\ ~InSeq(n, visited.indexed)
              /\ KeyOf(n) \notin Keys(index)

---------------------------------------------------------------------------
(* The section splitter as a state machine over bounded inputs.            *)

\* longest markdown text the parser specification draws
MaxInputLen == 7

ParseAlphabet == {"#", " ", "a", NL}

Texts(n) == UNION {[1..k -> ParseAlphabet] : k \in 0..n}

InitParse ==
    /\ IndexerInit
    /\ input \in Texts(MaxInputLen)
    /\ parsed = NotParsed
    /\ scan = NotScanning
    /\ out = NoOutput

\* a call parseMarkdown(input)
ParseDoc ==
    /\ ~parsed.done
    /\ parsed' = [done |-> TRUE,
                  title |-> parseMarkdown(input).title,
                  sections |-> parseMarkdown(input).sections]
    /\ UNCHANGED <<fsys, nchanges, walked, index, pc, ti, stack, prior, qres, input, scan, out, lastLog, rebuild, visited>>

\* a call MarkdownParser.extractSections(input)
ExtractSections ==
    /\ out.op = "none"
    /\ out' = [op |-> "extractSections", arg |-> input,
               result |-> extractSections(input)]
    /\ UNCHANGED <<fsys, nchanges, walked, index, pc, ti, stack, prior, qres, input,
                   parsed, scan, lastLog, rebuild, visited>>

NextParse ==
    \/ ParseDoc
    \/ ExtractSections

SpecParse == InitParse /\ [][NextParse]_vars

\* the lines of the input and the heading lines among them
InputLines == split(input, NL)
IsHeadingLine(i) == headingMatch(InputLines[i]).matched
HeadingLines == {i \in 1..Len(InputLines) : IsHeadingLine(i)}
FirstHeading == CHOOSE i \in HeadingLines : \A j \in HeadingLines : i <= j
HeadingTextOf(i) == trim(headingMatch(InputLines[i]).text)
Hashes(n) == [i \in 1..n |-> "#"]

\* the heading line a section stands for: its hashes, one blank and its title
HeadingLineOf(sec) == Hashes(sec.level) \o <<" ">> \o sec.title

\* the lines a section is rejoined to: its heading line, then its content
SectionLines(sec) ==
    <<HeadingLineOf(sec)>> \o
        (IF sec.content = <<>> THEN <<>> ELSE split(sec.content, NL))

\* the sections rejoined, in order, into one text
Rejoin(sections) ==
    LET F[i \in 0..Len(sections)] ==
            IF i = 0 THEN <<>> ELSE F[i - 1] \o SectionLines(sections[i])
    IN  join(F[Len(sections)], NL)

\* the input minus the text that precedes its first heading
AfterFirstHeading ==
    IF HeadingLines = {} THEN <<>>
    ELSE join(SubSeq(InputLines, FirstHeading, Len(InputLines)), NL)

\* every heading line is written as its hashes, one blank and its trimmed text
CanonicalHeadings ==
    \A i \in HeadingLines :
        InputLines[i] = Hashes(headingMatch(InputLines[i]).hashes)
                            \o <<" ">> \o HeadingTextOf(i)

\* no section is made of exactly one empty line
NoLoneBlankSection ==
    \A i \in HeadingLines :
        ~(/\ i + 1 <= Len(InputLines)
          /\ InputLines[i + 1] = <<>>
          /\ (i + 1 = Len(InputLines) \/ (i + 2) \in HeadingLines))

---------------------------------------------------------------------------
(* Claims about the section splitter.                                      *)

\* C9 (as stated): the title of a document is the text of the first heading
\* line of its content, which is also the title of its first section, and is
\* 'Untitled' when the content has no heading line.
C9_TitleIsFirstHeading ==
    parsed.done =>
        IF HeadingLines = {} THEN parsed.title = Untitled
        ELSE /\ parsed.title = HeadingTextOf(FirstHeading)
             /\ parsed.title = parsed.sections[1].title

\* C10 (as stated): rejoining, in order, each section's heading line with its
\* content reproduces the input minus the text that precedes the first heading.
C10_RejoinReproducesInput ==
    parsed.done => Rejoin(parsed.sections) = AfterFirstHeading

\* C10 (amended): the same, for inputs whose heading lines are written as
\* hashes, one blank and the title, and in which no section is a lone empty line.
C10_RejoinCanonicalInput ==
    (parsed.done /\ CanonicalHeadings /\ NoLoneBlankSection)
        => Rejoin(parsed.sections) = AfterFirstHeading

\* C10 witness: a canonical input with text before its first heading and a
\* section with content has been split.
C10_Witness ==
    /\ parsed.done /\ CanonicalHeadings /\ NoLoneBlankSection
    /\ HeadingLines # {} /\ FirstHeading > 1
    /\ parsed.sections[1].content # <<>>

\* C29: parseMarkdown and extractSections give the same sequence of (level,
\* title, content) triples, every level between 1 and 6; the line ranges of
\* extractSections tile the input from the first heading to the last line:
\* each lineStart is the section's heading line, each lineEnd + 1 is the next
\* section's lineStart, and the last lineEnd is the last line index.
C29_SplittersAgreeAndTile ==
    (parsed.done /\ out.op = "extractSections") =>
        LET a == parsed.sections
            b == out.result
        IN  /\ Len(a) = Len(b)
            /\ \A i \in 1..Len(b) :
                  /\ a[i].level = b[i].level
                  /\ a[i].title = b[i].title
                  /\ a[i].content = b[i].content
                  /\ b[i].level \in 1..6
                  /\ b[i].lineStart + 1 \in HeadingLines
            /\ Len(b) = Cardinality(HeadingLines)
            /\ b # <<>> => b[1].lineStart + 1 = FirstHeading
            /\ \A i \in 1..(Len(b) - 1) : b[i].lineEnd + 1 = b[i + 1].lineStart
            /\ b # <<>> => b[Len(b)].lineEnd = Len(InputLines) - 1

\* C29 witness: both splitters have run on an input with two headings.
C29_Witness ==
    /\ parsed.done /\ out.op = "extractSections"
    /\ Len(out.result) = 2
    /\ Len(parsed.sections) = 2

---------------------------------------------------------------------------
(* The code-block scanner as a state machine over bounded inputs.          *)

\* most lines of a text the scanner specification draws
MaxCodeLines == 4

\* the lines the texts are made of: ```, ```js, ``` and a blank, a blank
\* and ```, a, and the empty line
CodeLineChoices ==
    {Fence, Fence \o <<"j", "s">>, Fence \o <<" ">>, <<" ">> \o Fence, <<"a">>, <<>>}

CodeTexts ==
    {join(ls, NL) : ls \in UNION {[1..k -> CodeLineChoices] : k \in 1..MaxCodeLines}}

InitCode ==
    /\ IndexerInit
    /\ input \in CodeTexts
    /\ parsed = NotParsed
    /\ scan = NotScanning
    /\ out = NoOutput

\* a call extractCodeBlocks(input): the locals are initialised
ScanCall ==
    /\ scan.phase = "idle"
    /\ scan' = ScanStart
    /\ UNCHANGED <<fsys, nchanges, walked, index, pc, ti, stack, prior, qres, input,
                   parsed, out, lastLog, rebuild, visited>>

\* one iteration of the loop
ScanLine ==
    /\ scan.phase = "loop"
    /\ scan.i < Len(split(input, NL))
    /\ scan' = scanLine(scan, split(input, NL)[scan.i + 1])
    /\ UNCHANGED <<fsys, nchanges, walked, index, pc, ti, stack, prior, qres, input,
                   parsed, out, lastLog, rebuild, visited>>

\* the loop is over: the unclosed block is dealt with and the call returns
ScanReturn ==
    /\ scan.phase = "loop"
    /\ scan.i = Len(split(input, NL))
    /\ scan' = scanEnd(scan, Len(split(input, NL)))
    /\ UNCHANGED <<fsys, nchanges, walked, index, pc, ti, stack, prior, qres, input,
                   parsed, out, lastLog, rebuild, visited>>

NextCode == ScanCall \/ ScanLine \/ ScanReturn

SpecCode == InitCode /\ [][NextCode]_vars

\* line k (0-based) of the input
LineAt(k) == split(input, NL)[k + 1]
LastLineIndex == Len(split(input, NL)) - 1
\* the lines from..to (0-based) of the input, joined
LinesJoined(from, to) ==
    join([k \in 1..(to - from + 1) |-> LineAt(from + k - 1)], NL)

(* C11: every emitted code block has lineEnd >= lineStart, and its code is *)
(* the lines strictly between its opening fence line and its closing fence *)
(* line (or the end of the input): neither fence line is part of the code. *)
C11_BlocksExcludeFences ==
    \A n \in 1..Len(scan.codeBlocks) :
        LET b == scan.codeBlocks[n]
        IN  /\ b.lineEnd >= b.lineStart
            /\ codeBlockStart(LineAt(b.lineStart)).matched
            /\ b.code = LinesJoined(b.lineStart + 1, b.lineEnd)
            /\ \/ b.lineEnd < LastLineIndex /\ trim(LineAt(b.lineEnd + 1)) = Fence
               \/ b.lineEnd = LastLineIndex /\ scan.phase = "returned"

C11_Witness ==
    /\ scan.phase = "returned"
    /\ \E n \in 1..Len(scan.codeBlocks) :
          /\ scan.codeBlocks[n].lineEnd > scan.codeBlocks[n].lineStart
          /\ scan.codeBlocks[n].lineEnd < LastLineIndex

\* the block the scanner was in when the input ended is among the results
UnclosedEmitted ==
    \E n \in 1..Len(scan.codeBlocks) : scan.codeBlocks[n].lineStart = scan.codeStart

(* C19: when the input ends inside a block, the block is emitted if and    *)
(* only if at least one line follows its opening fence, and then its       *)
(* lineEnd is the index of the last line of the input.                     *)
C19_UnclosedBlockAtEnd ==
    (scan.phase = "returned" /\ scan.inCodeBlock) =>
        /\ UnclosedEmitted <=> (LastLineIndex > scan.codeStart)
        /\ UnclosedEmitted =>
              scan.codeBlocks[Len(scan.codeBlocks)] =
                  [language |-> codeBlockStart(LineAt(scan.codeStart)).lang,
                   code |-> LinesJoined(scan.codeStart + 1, LastLineIndex),
                   lineStart |-> scan.codeStart,
                   lineEnd |-> LastLineIndex]

C19_Witness ==
    /\ scan.phase = "returned" /\ scan.inCodeBlock
    /\ UnclosedEmitted
    /\ Len(scan.codeBlocks) > 1

(* C20: inside a block, a line whose trimmed content is three backticks    *)
(* closes the block, and every other line, a fence with a language tag     *)
(* included, is appended to the block's code and changes nothing else.     *)
C20_OnlyBareFenceLeavesBlock ==
    [][(scan.phase = "loop" /\ scan'.phase = "loop" /\ scan.inCodeBlock) =>
          IF trim(LineAt(scan.i)) = Fence
          THEN ~scan'.inCodeBlock
          ELSE scan' = [scan EXCEPT !.codeLines = Append(scan.codeLines, LineAt(scan.i)),
                                    !.i = scan.i + 1]]_vars

C20_Witness ==
    /\ scan.phase = "loop" /\ scan.inCodeBlock
    /\ scan.codeLines # <<>>
    /\ scan.codeLines[Len(scan.codeLines)] = Fence \o <<"j", "s">>

(* C30: the code blocks appear in increasing line order and never overlap: *)
(* each block's lineStart is greater than the previous block's lineEnd;    *)
(* and the number of code lines of each block is lineEnd - lineStart,      *)
(* lineStart being the index of the opening fence line.                    *)
C30_BlocksOrderedAndSized ==
    /\ \A n \in 2..Len(scan.codeBlocks) :
          scan.codeBlocks[n].lineStart > scan.codeBlocks[n - 1].lineEnd
    /\ \A n \in 1..Len(scan.codeBlocks) :
          LET b == scan.codeBlocks[n]
          IN  /\ SubSeq(LineAt(b.lineStart), 1, 3) = Fence
              /\ IF b.lineEnd - b.lineStart = 0 THEN b.code = <<>>
                 ELSE Len(split(b.code, NL)) = b.lineEnd - b.lineStart

C30_Witness ==
    /\ scan.phase = "returned"
    /\ Len(scan.codeBlocks) = 2
    /\ scan.codeBlocks[2].lineStart = scan.codeBlocks[1].lineEnd + 2

---------------------------------------------------------------------------
(* The table functions over bounded inputs.                                *)

\* most lines of a text the table specification draws
MaxTableLines == 4

\* the lines the texts are made of: a header |api|method|url|d|, a
\* separator, a full row, a row whose method cell is empty, a text line,
\* a lone pipe, and a line that starts with a pipe without ending in one
TableLineChoices ==
    {<<"|", "a", "p", "i", "|", "m", "e", "t", "h", "o", "d", "|", "u", "r", "l", "|", "d", "|">>,
     <<"|", "-", "|", "-", "|", "-", "|", "-", "|">>,
     <<"|", "p", "|", "G", "|", "/", "v", "|", "x", "|">>,
     <<"|", "p", "|", "|", "/", "v", "|", "x", "|">>,
     <<"x">>,
     <<"|">>,
     <<"|", "c">>}

TableTexts ==
    {join(ls, NL) : ls \in UNION {[1..k -> TableLineChoices] : k \in 1..MaxTableLines}}

InitTable ==
    /\ IndexerInit
    /\ input \in TableTexts
    /\ parsed = NotParsed
    /\ scan = NotScanning
    /\ out = NoOutput

\* a call extractTables(input)
ExtractTables ==
    /\ out.op = "none"
    /\ out' = [op |-> "extractTables", arg |-> <<>>, result |-> extractTables(input)]
    /\ UNCHANGED <<fsys, nchanges, walked, index, pc, ti, stack, prior, qres, input,
                   parsed, scan, lastLog, rebuild, visited>>

\* a call extractAPIEndpoints(input)
ExtractEndpoints ==
    /\ out.op = "none"
    /\ out' = [op |-> "extractAPIEndpoints", arg |-> <<>>,
               result |-> extractAPIEndpoints(input)]
    /\ UNCHANGED <<fsys, nchanges, walked, index, pc, ti, stack, prior, qres, input,
                   parsed, scan, lastLog, rebuild, visited>>

NextTable == ExtractTables \/ ExtractEndpoints

SpecTable == InitTable /\ [][NextTable]_vars

\* line k (0-based) of the input starts with '|'
IsTableLineAt(k) == startsWithChar(trim(LineAt(k)), Pipe)

\* the lines a table was parsed from
BlockOf(table) == split(table.raw, NL)

(* C12: every Table extractTables returns is built from one run of at      *)
(* least 2 consecutive table lines of the input; a lone table line         *)
(* contributes to none.                                                    *)
C12_TablesFromConsecutiveLines ==
    out.op = "extractTables" =>
        \A n \in 1..Len(out.result) :
            \E a \in 0..LastLineIndex, b \in 0..LastLineIndex :
                /\ b > a
                /\ \A k \in a..b : IsTableLineAt(k)
                /\ out.result[n].raw = LinesJoined(a, b)

\* the cells of a table line by position: what stands between the pipes
PositionalCells(line) ==
    LET pieces == split(trim(line), Pipe)
        last == IF endsWithChar(trim(line), Pipe) THEN Len(pieces) - 1 ELSE Len(pieces)
    IN  [k \in 1..(last - 1) |-> trim(pieces[k + 1])]

NonBlankCells(line) == SelectSeq(PositionalCells(line), LAMBDA c : c # <<>>)

\* the rows claimed for a block: its lines from the third on, in order,
\* each with its non-blank cells, a line without any giving no row
RowsFromThirdLine(block) ==
    LET F[k \in 2..Len(block)] ==
            IF k = 2 \/ NonBlankCells(block[k]) = <<>> THEN (IF k = 2 THEN <<>> ELSE F[k - 1])
            ELSE Append(F[k - 1],
                        [cells |-> [c \in 1..Len(NonBlankCells(block[k])) |->
                                      [content |-> NonBlankCells(block[k])[c],
                                       isHeader |-> FALSE]]])
    IN  F[Len(block)]

(* C13 as claimed: a block of exactly two lines parses to a Table with     *)
(* headers.length > 0 and no row; the rows of a longer block come only     *)
(* from its third line on, in order; the second line is never a row.       *)
C13_SecondLineNeverARow ==
    out.op = "extractTables" =>
        \A n \in 1..Len(out.result) :
            LET block == BlockOf(out.result[n])
            IN  /\ Len(block) = 2 =>
                      Len(out.result[n].headers) > 0 /\ out.result[n].rows = <<>>
                /\ out.result[n].rows = RowsFromThirdLine(block)

(* C13 amended: a block of exactly two lines parses to a Table with no     *)
(* row, and with headers.length > 0 exactly when its first line has a cell *)
(* that is not blank; the rows of a longer block come only from its third  *)
(* line on, in order; the second line is never a row.                      *)
C13_SecondLineNeverARowHeadersIfAny ==
    out.op = "extractTables" =>
        \A n \in 1..Len(out.result) :
            LET block == BlockOf(out.result[n])
            IN  /\ Len(block) = 2 =>
                      /\ out.result[n].rows = <<>>
                      /\ Len(out.result[n].headers) > 0 <=> NonBlankCells(block[1]) # <<>>
                /\ out.result[n].headers = NonBlankCells(block[1])
                /\ out.result[n].rows = RowsFromThirdLine(block)

C13_Witness ==
    /\ out.op = "extractTables"
    /\ \E n \in 1..Len(out.result) :
          /\ Len(BlockOf(out.result[n])) = 4
          /\ Len(out.result[n].rows) = 2
          /\ NonBlankCells(BlockOf(out.result[n])[2]) # <<>>
          /\ Len(out.result[n].headers) > 0

\* the position of the first header cell that holds one of the words, or 0
HeaderColumn(block, words) ==
    LET cells == PositionalCells(block[1])
        hits == {k \in 1..Len(cells) : \E w \in words : includes(toLowerCase(cells[k]), w)}
    IN  IF hits = {} THEN 0 ELSE CHOOSE k \in hits : \A j \in hits : k <= j

\* the cell of a line under a header column, empty when the line is short
CellUnder(line, column) ==
    IF column \in 1..Len(PositionalCells(line)) THEN PositionalCells(line)[column]
    ELSE <<>>

\* the triples claimed for a block
ClaimedBlockEndpoints(block) ==
    LET apiColumn == HeaderColumn(block, ApiWords)
        methodColumn == HeaderColumn(block, MethodWords)
        endpointColumn == HeaderColumn(block, EndpointWords)
        F[k \in 2..Len(block)] ==
            IF k = 2 THEN <<>>
            ELSE IF /\ CellUnder(block[k], apiColumn) # <<>>
                    /\ CellUnder(block[k], methodColumn) # <<>>
                    /\ CellUnder(block[k], endpointColumn) # <<>>
                 THEN Append(F[k - 1], [api |-> CellUnder(block[k], apiColumn),
                                        method |-> CellUnder(block[k], methodColumn),
                                        endpoint |-> CellUnder(block[k], endpointColumn)])
                 ELSE F[k - 1]
    IN  IF apiColumn # 0 /\ methodColumn # 0 /\ endpointColumn # 0 THEN F[Len(block)]
        ELSE <<>>

ClaimedEndpoints ==
    LET tables == extractTables(input)
        F[k \in 0..Len(tables)] ==
            IF k = 0 THEN <<>> ELSE F[k - 1] \o ClaimedBlockEndpoints(BlockOf(tables[k]))
    IN  F[Len(tables)]

(* C14: extractAPIEndpoints returns one triple for each data row of a      *)
(* qualifying table whose cells under the API, Method and Endpoint header  *)
(* columns are all non-empty, each field taken from the cell under its own *)
(* header column, and none for a row in which one of the three is empty.   *)
C14_EndpointsFromOwnColumns ==
    out.op = "extractAPIEndpoints" => out.result = ClaimedEndpoints

\* s without its leading and trailing hyphens
TrimHyphens(s) ==
    IF \A i \in 1..Len(s) : IsHyphen(s[i]) THEN <<>>
    ELSE SubSeq(s, LeadingCount(s, IsHyphen) + 1, Len(s) - TrailingCount(s, IsHyphen))

(* C17: every section's anchor is its title lowercased, with every         *)
(* character that is not a word character, white space or a hyphen         *)
(* removed and every run of white space replaced by one hyphen, and the    *)
(* anchor neither starts nor ends with a hyphen.                           *)
C17_AnchorFromTitle ==
    parsed.done =>
        \A n \in 1..Len(parsed.sections) :
            LET anchor == parsed.sections[n].anchor
                kept == FilterChars(toLowerCase(parsed.sections[n].title), AnchorKeeps)
            IN  /\ anchor = TrimHyphens(CollapseRuns(kept, IsSpace, "-"))
                /\ anchor # <<>> => anchor[1] # "-" /\ anchor[Len(anchor)] # "-"

---------------------------------------------------------------------------
(* extractKeywords over bounded inputs.                                    *)

\* most content tokens of a text the keyword specification draws
MaxContentTokens == 52

\* the k-th content token: W followed by two lower-case letters
TokenNumber(k) ==
    <<"W", LowerChars[((k - 1) \div 26) + 1], LowerChars[((k - 1) % 26) + 1]>>

\* a content of n tokens separated by blanks; with repeat the tokens cycle
\* through three values, with short a two-letter token comes first
KeywordText(n, repeat, short) ==
    (IF short THEN <<"a", "b", " ">> ELSE <<>>)
    \o join([j \in 1..n |-> TokenNumber(IF repeat THEN ((j - 1) % 3) + 1 ELSE j)], " ")

KeywordTexts ==
    {KeywordText(n, repeat, short) :
        n \in 0..MaxContentTokens, repeat \in BOOLEAN, short \in BOOLEAN}

\* the titles: none, "Waa b" and "Pay  API" with two blanks
KeywordTitles ==
    {<<>>, <<"W", "a", "a", " ", "b">>, <<"P", "a", "y", " ", " ", "A", "P", "I">>}

InitKeywords ==
    /\ IndexerInit
    /\ input \in KeywordTexts
    /\ parsed = NotParsed
    /\ scan = NotScanning
    /\ out = NoOutput

\* a call extractKeywords(title, input)
ExtractKeywords ==
    /\ out.op = "none"
    /\ \E title \in KeywordTitles :
          out' = [op |-> "extractKeywords", arg |-> title,
                  result |-> extractKeywords(title, input)]
    /\ UNCHANGED <<fsys, nchanges, walked, index, pc, ti, stack, prior, qres, input,
                   parsed, scan, lastLog, rebuild, visited>>

NextKeywords == ExtractKeywords

SpecKeywords == InitKeywords /\ [][NextKeywords]_vars

\* the maximal runs of characters of s that satisfy P, as <<first, last>>
MaximalRuns(s, P(_)) ==
    {<<a, a + LeadingCount(SubSeq(s, a, Len(s)), P) - 1>> :
        a \in {i \in 1..Len(s) : P(s[i]) /\ (i = 1 \/ ~P(s[i - 1]))}}

IsTokenChar(c) == IsAlnum(c) \/ IsHangul(c)

\* the title tokens longer than one character
LongTitleTokens(title) ==
    {r \in MaximalRuns(title, NotSpace) : r[2] - r[1] + 1 > 1}

\* the content tokens longer than two characters
LongContentTokens(content) ==
    {r \in MaximalRuns(content, IsTokenChar) : r[2] - r[1] + 1 > 2}

\* those of them that are among the first 50 in document order
FirstFifty(runs) == {r \in runs : Cardinality({q \in runs : q[1] < r[1]}) < 50}
FirstContentTokens(content) == FirstFifty(LongContentTokens(content))

---------------------------------------------------------------------------
(* The link extractor over bounded inputs.                                 *)

\* most pieces a text of the link specification is made of
MaxLinkPieces == 4

\* the pieces: [a], (u), (u "t"), [r], a colon, a blank and v, a newline
LinkPieces ==
    {<<"[", "a", "]">>,
     <<"(", "u", ")">>,
     <<"(", "u", " ", Quote, "t", Quote, ")">>,
     <<"[", "r", "]">>,
     <<":", " ", "v">>,
     <<NL>>}

RECURSIVE Concat(_)
Concat(pieces) == IF pieces = <<>> THEN <<>> ELSE Head(pieces) \o Concat(Tail(pieces))

LinkTexts ==
    {Concat(ps) : ps \in UNION {[1..k -> LinkPieces] : k \in 1..MaxLinkPieces}}

InitLinks ==
    /\ IndexerInit
    /\ input \in LinkTexts
    /\ parsed = NotParsed
    /\ scan = NotScanning
    /\ out = NoOutput

\* a call extractLinks(input)
ExtractLinks ==
    /\ out.op = "none"
    /\ out' = [op |-> "extractLinks", arg |-> input, result |-> extractLinks(input)]
    /\ UNCHANGED <<fsys, nchanges, walked, index, pc, ti, stack, prior, qres, input,
                   parsed, scan, lastLog, rebuild, visited>>

NextLinks == ExtractLinks

SpecLinks == InitLinks /\ [][NextLinks]_vars

\* the two inline forms as they are written
TitledLink == <<"[", "a", "]", "(", "u", " ", Quote, "t", Quote, ")">>
PlainLink == <<"[", "a", "]", "(", "u", ")">>
Written(form) ==
    \E p \in 1..(Len(input) - Len(form) + 1) :
        SubSeq(input, p, p + Len(form) - 1) = form

\* C23 (as stated): for an inline link written [text](url "title")
\* extractLinks yields a Link with that text, the url alone and the title;
\* for [text](url) a Link with the text, the url and no title.
C23_InlineLinkParts ==
    out.op = "extractLinks" =>
        /\ Written(TitledLink) =>
              \E i \in 1..Len(out.result) :
                  out.result[i] = [text |-> <<"a">>, url |-> <<"u">>,
                                   hasTitle |-> TRUE, title |-> <<"t">>]
        /\ Written(PlainLink) =>
              \E i \in 1..Len(out.result) :
                  out.result[i] = [text |-> <<"a">>, url |-> <<"u">>,
                                   hasTitle |-> FALSE, title |-> <<>>]

---------------------------------------------------------------------------
(* The server: the CallToolRequestSchema handler and the four tools.  A    *)
(* reply keeps what the claims are about: whether the call threw, the      *)
(* isError flag, which message it carries, whether the indexer was asked   *)
(* and whether an exception was raised on the way.                         *)

\* argument values as the JSON of a request gives them
Undefined == [kind |-> "undefined", str |-> <<>>]
NumberValue == [kind |-> "number", str |-> <<>>]
Str(s) == [kind |-> "string", str |-> s]

\* !v is false
truthy(v) == v.kind = "number" \/ (v.kind = "string" /\ v.str # <<>>)

\* args?.field
field(args, name) == IF args.present THEN args[name] ELSE Undefined

\* !args?.field || typeof args.field !== 'string'
invalidString(v) == ~truthy(v) \/ v.kind # "string"

Reply(isError, text, consulted, raised) ==
    [thrown |-> FALSE, isError |-> isError, text |-> text,
     consulted |-> consulted, raised |-> raised]

\* NicePayMCPServer.searchDocs(query)
searchDocs(idx, query) ==
    IF trim(query) = <<>> THEN Reply(TRUE, "enter a query", FALSE, FALSE)
    ELSE IF searchDocuments(idx, trim(query)) = <<>>
         THEN Reply(FALSE, "no results", TRUE, FALSE)
         ELSE Reply(FALSE, "results", TRUE, FALSE)

ApiDocPath == <<"c", "o", "m", "m", "o", "n", "/", "a", "p", "i", ".", "m", "d">>

\* the table getAPIEndpoint looks for: headers that, lowercased, include
\* 'api', 'method' and 'endpoint'
isUriTable(table) ==
    LET headers == {toLowerCase(table.headers[i]) : i \in 1..Len(table.headers)}
    IN  {<<"a", "p", "i">>, <<"m", "e", "t", "h", "o", "d">>,
         <<"e", "n", "d", "p", "o", "i", "n", "t">>} \subseteq headers

\* NicePayMCPServer.getAPIEndpoint(endpointName); the replies that format
\* the row found stand as "endpoint"
getAPIEndpoint(idx, endpointName) ==
    IF trim(endpointName) = <<>> THEN Reply(TRUE, "enter a name", FALSE, FALSE)
    ELSE LET apiDoc == getDocument(idx, ApiDocPath)
         IN  IF ~apiDoc.found THEN Reply(TRUE, "no api document", TRUE, FALSE)
             ELSE LET tables == extractTables(apiDoc.doc.content)
                  IN  IF \A i \in 1..Len(tables) : ~isUriTable(tables[i])
                      THEN Reply(TRUE, "no uri table", TRUE, FALSE)
                      ELSE Reply(FALSE, "endpoint", TRUE, FALSE)

\* NicePayMCPServer.getCodeSample(topic, language).  With a truthy language
\* extractCodeBlocksByLanguage calls language.toLowerCase() for the first
\* document found: a TypeError when language is not a string, raised inside
\* the try block and answered by its catch.
getCodeSample(idx, topic, language) ==
    IF trim(topic) = <<>> THEN Reply(TRUE, "enter a topic", FALSE, FALSE)
    ELSE IF searchDocuments(idx, trim(topic)) = <<>>
         THEN Reply(FALSE, "no samples", TRUE, FALSE)
         ELSE IF truthy(language) /\ language.kind # "string"
              THEN Reply(TRUE, "code sample error", TRUE, TRUE)
              ELSE Reply(FALSE, "samples", TRUE, FALSE)

Authnice == <<"a", "u", "t", "h", "n", "i", "c", "e">>
startsWith(s, t) == Len(s) >= Len(t) /\ SubSeq(s, 1, Len(t)) = t
dropPrefix(s, t) == IF startsWith(s, t) THEN SubSeq(s, Len(t) + 1, Len(s)) ELSE s

\* query.replace(/^authnice\.?/, '').replace(/^\./, '')
cleanMethodName(query) ==
    dropPrefix(IF startsWith(query, Authnice)
               THEN dropPrefix(dropPrefix(query, Authnice), <<".">>)
               ELSE query,
               <<".">>)

\* the words 'request' and 'cancel' and the Korean queries they add
RequestWord == <<"r", "e", "q", "u", "e", "s", "t">>
CancelWord == <<"c", "a", "n", "c", "e", "l">>
PayWindowQuery == <<"H1", "H2", "H1">>
CancelQuery == <<"H2", "H1">>

\* the searchQueries of getSDKMethod
searchQueries(query) ==
    SelectSeq(<<Authnice \o <<".">> \o cleanMethodName(query),
                cleanMethodName(query),
                IF includes(query, RequestWord) THEN PayWindowQuery ELSE <<>>,
                IF includes(query, CancelWord) THEN CancelQuery ELSE <<>>>>,
              LAMBDA q : Len(q) > 0)

\* NicePayMCPServer.getSDKMethod(methodName); the replies that describe the
\* documents found stand as "method"
getSDKMethod(idx, methodName) ==
    IF trim(methodName) = <<>> THEN Reply(TRUE, "enter a method", FALSE, FALSE)
    ELSE LET qs == searchQueries(toLowerCase(trim(methodName)))
         IN  IF \A i \in 1..Len(qs) : searchDocuments(idx, qs[i]) = <<>>
             THEN Reply(FALSE, "no method", TRUE, FALSE)
             ELSE Reply(FALSE, "method", TRUE, FALSE)

\* what the catch of the handler makes of the outcome of a tool
caught(r) == IF r.thrown THEN Reply(TRUE, "unexpected error", r.consulted, TRUE) ELSE r

\* the handler with an empty reply for a name it does not know
callToolUnknownPasses(idx, name, args) ==
    IF name = "search_nicepay_docs"
    THEN IF invalidString(field(args, "value"))
         THEN Reply(TRUE, "query is required", FALSE, FALSE)
         ELSE caught(searchDocs(idx, args.value.str))
    ELSE IF name = "get_api_endpoint"
    THEN IF invalidString(field(args, "value"))
         THEN Reply(TRUE, "endpoint_name is required", FALSE, FALSE)
         ELSE caught(getAPIEndpoint(idx, args.value.str))
    ELSE IF name = "get_code_sample"
    THEN IF invalidString(field(args, "value"))
         THEN Reply(TRUE, "topic is required", FALSE, FALSE)
         ELSE caught(getCodeSample(idx, args.value.str, args.language))
    ELSE IF name = "get_sdk_method"
    THEN IF invalidString(field(args, "value"))
         THEN Reply(TRUE, "method_name is required", FALSE, FALSE)
         ELSE caught(getSDKMethod(idx, args.value.str))
    ELSE Reply(FALSE, "", FALSE, FALSE)

\* the CallToolRequestSchema handler: args.value is the required string
\* argument of the tool named (query, endpoint_name, topic, method_name)
callTool(idx, name, args) ==
    IF name = "search_nicepay_docs"
    THEN IF invalidString(field(args, "value"))
         THEN Reply(TRUE, "query is required", FALSE, FALSE)
         ELSE caught(searchDocs(idx, args.value.str))
    ELSE IF name = "get_api_endpoint"
    THEN IF invalidString(field(args, "value"))
         THEN Reply(TRUE, "endpoint_name is required", FALSE, FALSE)
         ELSE caught(getAPIEndpoint(idx, args.value.str))
    ELSE IF name = "get_code_sample"
    THEN IF invalidString(field(args, "value"))
         THEN Reply(TRUE, "topic is required", FALSE, FALSE)
         ELSE caught(getCodeSample(idx, args.value.str, args.language))
    ELSE IF name = "get_sdk_method"
    THEN IF invalidString(field(args, "value"))
         THEN Reply(TRUE, "method_name is required", FALSE, FALSE)
         ELSE caught(getSDKMethod(idx, args.value.str))
    ELSE Reply(TRUE, "unknown tool", FALSE, FALSE)

\* the tool names and the arguments a client sends
ToolNames == {"search_nicepay_docs", "get_api_endpoint", "get_code_sample",
              "get_sdk_method", "no_such_tool"}
ArgValues == {Undefined, NumberValue, Str(<<>>), Str(<<" ">>),
              Str(<<"p", "a", "y">>), Str(<<"z", "z">>)}
LanguageValues == {Undefined, NumberValue, Str(<<"j", "s">>)}
ToolArgs ==
    {[present |-> FALSE, value |-> Undefined, language |-> Undefined]}
    \cup [present : {TRUE}, value : ArgValues, language : LanguageValues]

\* a tools/call request is handled; the handler keeps nothing from one
\* request to the next, a run follows one request
CallTool ==
    /\ out.op = "none"
    /\ \E name \in ToolNames, args \in ToolArgs :
          out' = [op |-> "callTool", arg |-> [name |-> name, args |-> args],
                  result |-> callTool(index, name, args)]
    /\ qres' = NoQuery
    /\ UNCHANGED <<fsys, nchanges, walked, index, pc, ti, stack, prior, input, parsed,
                   scan, lastLog, rebuild, visited>>

\* the server over a tree that does not change: initializeIndexer builds
\* the index while requests are handled
NextServer ==
    \/ BuildStart
    \/ TargetSkip
    \/ TargetEnter
    \/ EntryPruned
    \/ EntryDescend
    \/ EntryIndex
    \/ EntrySkip
    \/ DirReturn
    \/ ReadmeStep
    \/ CallTool

SpecServer == Init /\ [][NextServer]_vars

KnownTools == ToolNames \ {"no_such_tool"}

\* the required string argument is missing, empty or not a string
BadArgument(args) ==
    \/ ~args.present
    \/ args.value.kind # "string"
    \/ args.value.str = <<>>

\* C22: every tool call returns a result and never throws; a call naming an
\* unknown tool, or whose required string argument is missing, empty or not
\* a string, returns an isError result without consulting the index; an
\* exception raised while a tool runs is converted into an isError result.
C22_ToolCallsAlwaysReply ==
    out.op = "callTool" =>
        /\ ~out.result.thrown
        /\ (out.arg.name \notin KnownTools \/ BadArgument(out.arg.args)) =>
              (out.result.isError /\ ~out.result.consulted)
        /\ out.result.raised => out.result.isError

\* C22 witness: a tool has raised an exception on a built index and the
\* call has returned.
C22_Witness ==
    /\ out.op = "callTool"
    /\ out.result.raised
    /\ out.result.consulted
    /\ pc = "done"

---------------------------------------------------------------------------
(* The section splitter and the code-block scanner on the same document.   *)

\* most lines of a document the two are run on
MaxDocLines == 4

\* the lines the documents are made of: a heading, a fence, a text line
DocLineChoices == {<<"#", " ", "T">>, Fence, <<"a">>}

DocTexts ==
    {join(ls, NL) : ls \in UNION {[1..k -> DocLineChoices] : k \in 1..MaxDocLines}}

InitDoc ==
    /\ IndexerInit
    /\ input \in DocTexts
    /\ parsed = NotParsed
    /\ scan = NotScanning
    /\ out = NoOutput

NextDoc ==
    \/ ParseDoc
    \/ ScanCall
    \/ ScanLine
    \/ ScanReturn

SpecDoc == InitDoc /\ [][NextDoc]_vars

\* language and code of the blocks found
BlockTexts(blocks) ==
    [n \in 1..Len(blocks) |-> [language |-> blocks[n].language, code |-> blocks[n].code]]

\* the blocks found by scanning the content of each section in turn
BlocksOfSections(sections) ==
    LET F[i \in 0..Len(sections)] ==
            IF i = 0 THEN <<>>
            ELSE F[i - 1] \o BlockTexts(extractCodeBlocks(sections[i].content))
    IN  F[Len(sections)]

\* C24 (as stated): no line between the opening and the closing fence of a
\* code block is treated as a heading by the section splitter, and scanning
\* each section's content for code blocks finds the same blocks as scanning
\* the whole document.
C24_FencedBlocksStayWhole ==
    (parsed.done /\ scan.phase = "returned") =>
        /\ \A n \in 1..Len(scan.codeBlocks) :
              \A k \in (scan.codeBlocks[n].lineStart + 1)..scan.codeBlocks[n].lineEnd :
                  ~headingMatch(LineAt(k)).matched
        /\ BlocksOfSections(parsed.sections) = BlockTexts(scan.codeBlocks)

=============================================================================
